---------------------------- MODULE Spec2Model ----------------------------
(***************************************************************************)
(* Model of the application state controller of the Saunafreunde member    *)
(* app (src/index.tsx): the root component App, its handlers, the          *)
(* localStorage-backed apiClient and the date helpers.                     *)
(*                                                                         *)
(* Conventions.                                                            *)
(*   - Instants are whole hours since 1970-01-01T00:00Z; a calendar date   *)
(*     string "YYYY-MM-DD" is the number of its day since 1970-01-01.      *)
(*     tz is the offset of local time from UTC in hours.                   *)
(*   - JS null / undefined: 0 for a numeric id, NULL for a string, the     *)
(*     empty tuple for an optional record (currentUser) or a storage key   *)
(*     that was never written.                                             *)
(*   - Every handler is one action: the handlers are started by user       *)
(*     events, one at a time, and run to completion.  An action named      *)
(*     ...Unloaded is the same handler when the page is closed while the   *)
(*     handler waits for its first persistence write to finish: that       *)
(*     write has reached localStorage, the rest of the handler never runs  *)
(*     and the in-memory state is gone.  An action named ...Begin is a     *)
(*     handler up to its first persistence write; inflight then holds     *)
(*     what each suspended handler does once its write has finished, and  *)
(*     other handlers may be started in between.                          *)
(*   - A component computes what it offers when it is rendered; it is     *)
(*     rendered again whenever state of App changes, never because time   *)
(*     has passed.  renderedAt is the instant of the last render.         *)
(***************************************************************************)
EXTENDS Integers, Sequences, FiniteSets, TLC

VARIABLES
    appStage,            \* AppStage
    currentUser,         \* <<>> (null) or <<User>>
    users,               \* User[]
    posts,               \* Post[]
    festivals,           \* Festival[]
    aufguesse,           \* Aufguss[]
    selectedFestivalId,  \* festival id, <<>> for ''
    storage,             \* localStorage: key -> <<>> (absent) or <<value>>
    now,                 \* wall clock, hours since the epoch (UTC)
    tz,                  \* local time zone offset in hours
    idClock,             \* number of ids already drawn from Date.now()
    ops,                 \* number of state-changing handlers run so far
    last,                \* the last handler run, its arguments and what it saw
    inflight,            \* the handlers suspended in a persistence write
    renderedAt,          \* the instant of the last render of the page
    availableQuals,      \* string[]
    editingUser,         \* <<>> (null) or <<User>>: the user the dialog is for
    selectedQuals,       \* QualificationAssignmentModal: the ticked names
    isQualsModalOpen,    \* whether the qualification dialog is shown
    isManaging,          \* QualificationAssignmentModal: the manage view
    editingUserInUsers   \* whether the object editingUser refers to is still
                         \* the one held in users (React compares the
                         \* dependencies of an effect by identity)

vars == <<appStage, currentUser, users, posts, festivals, aufguesse,
          selectedFestivalId, storage, now, tz, idClock, ops, last, inflight,
          renderedAt, availableQuals, editingUser, selectedQuals,
          isQualsModalOpen, isManaging, editingUserInUsers>>

\* the state of the qualification list and of its dialog
qualsVars == <<availableQuals, editingUser, selectedQuals, isQualsModalOpen,
               isManaging, editingUserInUsers>>

-----------------------------------------------------------------------------
(* Bounds of the model *)

\* days of the slot window that are generated (the program generates 30)
WindowDays == 2
\* hours the clock may advance after the page was first opened
MaxElapsed == 1
\* state-changing handlers run in one behaviour
MaxOps == 3
\* users that register in one behaviour
MaxNewUsers == 1
\* festivals held in memory
MaxFestivals == 2
\* posts held in memory
MaxPosts == 4
\* tasks of one festival
MaxTasks == 5
\* handlers suspended in a persistence write at the same time
MaxInflight == 2

\* the instants at which the page is first opened: a Wednesday, 18:00 UTC
StartTimes == {20 * 24 + 18}
\* the time zones of the browser
TimeZones == {2}
\* hours of the day for which slots are kept
ModelHours == {20}
\* saunas for which slots are kept
ModelSaunas == {"80° Kelo Sauna"}
\* the aufguss types offered in the type dialog
ModelTypes == {"Räucherritual", "Kräutersud"}

-----------------------------------------------------------------------------
(* Generic helpers *)

NULL == "null"
Some(v) == <<v>>
None == <<>>

Range(s) == {s[i] : i \in 1..Len(s)}

\* Array.prototype.map
MapSeq(F(_), s) == [i \in 1..Len(s) |-> F(s[i])]

\* Array.prototype.filter
FilterSeq(s, T(_)) == SelectSeq(s, T)

\* index of the first element satisfying T, 0 if none (Array.prototype.find)
FindIndex(s, T(_)) ==
    IF \E i \in 1..Len(s) : T(s[i])
    THEN CHOOSE i \in 1..Len(s) : T(s[i]) /\ \A j \in 1..(i - 1) : ~T(s[j])
    ELSE 0

Max(a, b) == IF a >= b THEN a ELSE b

-----------------------------------------------------------------------------
(* Dates *)

HoursPerDay == 24
DaysPerWeek == 7
\* Date.prototype.getDay of 1970-01-01 (a Thursday)
EpochWeekday == 4
THURSDAY == 4

\* the calendar day (UTC) of an instant: toISOString().split('T')[0]
IsoDate(t) == t \div HoursPerDay
\* the local calendar day of an instant
LocalDate(t, z) == (t + z) \div HoursPerDay
\* Date.prototype.getDay, 0 = Sunday
GetDay(t, z) == (LocalDate(t, z) + EpochWeekday) % DaysPerWeek
\* new Date("YYYY-MM-DD"): midnight UTC of that day
ParseDate(d) == d * HoursPerDay
\* new Date("YYYY-MM-DDTHH:00"): that local time
ParseLocalDateTime(d, h, z) == d * HoursPerDay + h - z
\* Date.prototype.setHours(h, 0, 0, 0)
SetHours(t, h, z) == LocalDate(t, z) * HoursPerDay + h - z

DeadlineHour == 22

getThursdayBefore(startDate, z) ==
    LET date == SetHours(startDate, 0, z)
        back == (GetDay(date, z) + DaysPerWeek - THURSDAY) % DaysPerWeek
        daysToGoBack == IF back = 0 THEN DaysPerWeek ELSE back
    IN  SetHours(date - daysToGoBack * HoursPerDay, DeadlineHour, z)


-----------------------------------------------------------------------------
(* Seed data *)

SAUNA_LOCATIONS == <<"Panoramabad Freudenstadt", "Albthermen Bad Urach",
                     "Saunawelt Höchenschwand">>

LOCATION_SAUNAS(loc) ==
    CASE loc = SAUNA_LOCATIONS[1] -> <<"80° Kelo Sauna", "100° Blockhaus Sauna">>
      [] loc = SAUNA_LOCATIONS[2] -> <<"Mineraltherme-Sauna">>
      [] loc = SAUNA_LOCATIONS[3] -> <<"Natur-Sauna", "Schwarzwald-Hütte">>

DEFAULT_QUALIFICATIONS ==
    <<"Saunameister Basic", "Saunameister Pro", "Eventmanagement", "Ersthelfer">>

\* the fields of User that the handlers read or write
MOCK_USERS == <<
    [id |-> 1, name |-> "Christoph René Wolfert", username |-> "admin",
     isAdmin |-> TRUE, aufgussCount |-> 99, workHours |-> 150,
     shortNoticeCancellations |-> 0,
     qualifications |-> <<"Saunameister Pro", "Eventmanagement">>,
     permissions |-> <<"delete_content", "create_festivals", "manage_users">>],
    [id |-> 2, name |-> "Max Mustermann", username |-> "max",
     isAdmin |-> FALSE, aufgussCount |-> 12, workHours |-> 25,
     shortNoticeCancellations |-> 1,
     qualifications |-> <<"Saunameister Basic">>,
     permissions |-> <<>>],
    [id |-> 3, name |-> "Anna Schmidt", username |-> "anna",
     isAdmin |-> FALSE, aufgussCount |-> 0, workHours |-> 0,
     shortNoticeCancellations |-> 0,
     qualifications |-> <<>>,
     permissions |-> <<>>] >>

MOCK_POSTS == <<
    [id |-> 1, userId |-> 2, type |-> "text", likes |-> <<1>>,
     options |-> <<>>],
    [id |-> 2, userId |-> 1, type |-> "text", likes |-> <<>>,
     options |-> <<>>],
    [id |-> 3, userId |-> 1, type |-> "poll", likes |-> <<2>>,
     options |-> << [votes |-> <<2>>], [votes |-> <<>>], [votes |-> <<1>>] >>] >>

\* the participant record handleCreateFestival and
\* handleCompleteRegistration create
PendingParticipant(uid) ==
    [userId |-> uid, status |-> "pending", aufgussAvailability |-> <<>>,
     workHours |-> 0, hoursLogged |-> FALSE, aufgussProposals |-> <<>>]

UpcomingFestivalDays == 10
FestivalLengthDays == 2

\* MOCK_FESTIVALS, built when the page is opened at instant t
MOCK_FESTIVALS(t, z) ==
    LET upcomingFestivalDate == t + UpcomingFestivalDays * HoursPerDay
        upcomingFestivalEndDate ==
            upcomingFestivalDate + FestivalLengthDays * HoursPerDay
    IN << [id |-> <<"sommerfest-2024">>,
           name |-> "Sommer-Saunafest 2024",
           startDate |-> IsoDate(upcomingFestivalDate),
           endDate |-> IsoDate(upcomingFestivalEndDate),
           rsvpDeadline |-> getThursdayBefore(upcomingFestivalDate, z),
           tasks |-> << [id |-> 1, responsible |-> 0],
                        [id |-> 2, responsible |-> 1],
                        [id |-> 3, responsible |-> 0],
                        [id |-> 4, responsible |-> 2] >>,
           participants |->
               [i \in 1..Len(MOCK_USERS) |->
                   IF MOCK_USERS[i].id = 1
                   THEN [userId |-> 1, status |-> "attending",
                         aufgussAvailability |-> <<"10:00", "14:00", "18:00">>,
                         workHours |-> 0, hoursLogged |-> FALSE,
                         aufgussProposals |-> <<"Sommernachtstraum">>]
                   ELSE PendingParticipant(MOCK_USERS[i].id)]] >>

-----------------------------------------------------------------------------
(* Slot generator *)

\* the members of a set of hours in ascending order
RECURSIVE SortedHours(_)
SortedHours(S) ==
    IF S = {} THEN <<>>
    ELSE LET m == CHOOSE x \in S : \A y \in S : x <= y
         IN  <<m>> \o SortedHours(S \ {m})

RECURSIVE Flatten(_)
Flatten(ss) == IF ss = <<>> THEN <<>> ELSE Head(ss) \o Flatten(Tail(ss))

FreeSlot(loc, sauna, dateStr, time) ==
    [id |-> <<loc, sauna, dateStr, time>>,
     location |-> loc, sauna |-> sauna, date |-> dateStr, time |-> time,
     aufgussmeisterId |-> 0, aufgussmeisterName |-> NULL, type |-> NULL]

\* the hours of Panoramabad Freudenstadt on a day of the week
fdsTimes(dayOfWeek) ==
    IF dayOfWeek >= 2 /\ dayOfWeek <= 4 THEN 14..20
    ELSE IF dayOfWeek >= 5 \/ dayOfWeek = 0 THEN 11..20
    ELSE {}

PastSlotDays == 15
PastSlotHour == 18

\* the slots of one day of the window, for the saunas and hours kept
SlotsOfDay(today, day, z) ==
    LET currentDate == today + day * HoursPerDay
        dateStr == IsoDate(currentDate)
        dayOfWeek == GetDay(currentDate, z)
        fdsSaunas == FilterSeq(LOCATION_SAUNAS(SAUNA_LOCATIONS[1]),
                               LAMBDA s : s \in ModelSaunas)
        times == SortedHours(fdsTimes(dayOfWeek) \cap ModelHours)
    IN  Flatten([i \in 1..Len(fdsSaunas) |->
            [j \in 1..Len(times) |->
                FreeSlot(SAUNA_LOCATIONS[1], fdsSaunas[i], dateStr, times[j])]])

generateInitialAufguesse(today, z) ==
    Flatten([d \in 1..WindowDays |-> SlotsOfDay(today, d - 1, z)])
    \o << [id |-> <<"test-aufguss-past">>,
           location |-> SAUNA_LOCATIONS[1],
           sauna |-> LOCATION_SAUNAS(SAUNA_LOCATIONS[1])[1],
           date |-> IsoDate(today - PastSlotDays * HoursPerDay),
           time |-> PastSlotHour,
           aufgussmeisterId |-> 2,
           aufgussmeisterName |-> "Max Mustermann",
           type |-> "Test Aufguss"] >>

-----------------------------------------------------------------------------
(* apiClient: localStorage *)

StorageKeys == {"users", "posts", "festivals", "aufguesse",
                "selectedFestivalId", "availableQuals"}

\* A stored string is [shape, json]: shape "array" for the text of an array
\* (json holds the array), "null" and "object" for the texts null and {},
\* "garbage" for a text that is not JSON.
\* JSON.stringify of the values the handlers save: arrays of records of
\* numbers, strings, booleans and null
JSONStringify(v) == [shape |-> "array", json |-> v]

\* the values null and {} where an array is expected
JSNull == << [null |-> TRUE] >>
JSObject == << [object |-> TRUE] >>
\* Array.isArray; a value that is not an array has no map and no find
IsArray(v) == v \notin {JSNull, JSObject}

\* JSON.parse throws a SyntaxError
ParseThrows(str) == str.shape = "garbage"
JSONParse(str) ==
    CASE str.shape = "array" -> str.json
      [] str.shape = "null" -> JSNull
      [] str.shape = "object" -> JSObject

safeJSONParse_EmptyIsMissing(store, key, fallback) ==
    IF store[key] # None /\ ~ParseThrows(store[key][1])
       /\ JSONParse(store[key][1]) # <<>>
    THEN JSONParse(store[key][1])
    ELSE fallback

safeJSONParse(store, key, fallback) ==
    IF store[key] # None /\ ~ParseThrows(store[key][1])
    THEN JSONParse(store[key][1])
    ELSE fallback

\* localStorage.setItem(key, JSON.stringify(data))
saveData(store, key, data) == [store EXCEPT ![key] = Some(JSONStringify(data))]

\* localStorage.setItem('selectedFestivalId', id)
saveSelectedFestivalId(store, id) ==
    [store EXCEPT !["selectedFestivalId"] = Some(id)]

\* the object returned from the catch block of loadAllData
loadAllDataFallback(t, z) ==
    [users |-> MOCK_USERS,
     posts |-> MOCK_POSTS,
     festivals |-> MOCK_FESTIVALS(t, z),
     aufguesse |-> generateInitialAufguesse(t, z),
     availableQuals |-> DEFAULT_QUALIFICATIONS,
     selectedFestivalId |-> <<>>]

\* initialUsers.map throws a TypeError when initialUsers is not an array;
\* the migration of the status field changes no field kept here
loadAllData(store, t, z) ==
    LET initialUsers == safeJSONParse(store, "users", MOCK_USERS)
    IN  IF ~IsArray(initialUsers) THEN loadAllDataFallback(t, z)
        ELSE
    [users |-> initialUsers,
     posts |-> safeJSONParse(store, "posts", MOCK_POSTS),
     festivals |-> safeJSONParse(store, "festivals", MOCK_FESTIVALS(t, z)),
     aufguesse |-> safeJSONParse(store, "aufguesse",
                                 generateInitialAufguesse(t, z)),
     availableQuals |-> safeJSONParse(store, "availableQuals",
                                      DEFAULT_QUALIFICATIONS),
     selectedFestivalId |->
         IF store["selectedFestivalId"] # None
            /\ store["selectedFestivalId"][1] # <<>>
         THEN store["selectedFestivalId"][1] ELSE <<>>]

-----------------------------------------------------------------------------
(* State after construction of App (the useState initialisers) *)

EmptyStorage == [k \in StorageKeys |-> None]

\* op: the handler; uid, key, arg: the user, entity and argument it was run
\* for; flag: whether it took effect (for claim: whether the slot was already
\* claimed); pre: the value it found; chain: what the handler before it found,
\* when that handler was the first half of a pair this one completes
NoOp == [op |-> "none", uid |-> 0, key |-> <<>>, arg |-> NULL,
         flag |-> FALSE, pre |-> 0, chain |-> None]

Init ==
    /\ appStage = "loading"
    /\ currentUser = None
    /\ users = <<>>
    /\ posts = <<>>
    /\ festivals = <<>>
    /\ aufguesse = <<>>
    /\ selectedFestivalId = <<>>
    /\ storage = EmptyStorage
    /\ now \in StartTimes
    /\ tz \in TimeZones
    /\ idClock = 0
    /\ ops = 0
    /\ last = NoOp
    /\ inflight = None
    /\ renderedAt = now
    /\ availableQuals = <<>>
    /\ editingUser = None
    /\ selectedQuals = <<>>
    /\ isQualsModalOpen = FALSE
    /\ isManaging = FALSE
    /\ editingUserInUsers = FALSE

-----------------------------------------------------------------------------
(* Environment: time passes, the page is closed and opened again *)

Tick ==
    /\ \E s \in StartTimes : now >= s /\ now < s + MaxElapsed
    /\ now' = now + 1
    /\ UNCHANGED <<appStage, currentUser, users, posts, festivals, aufguesse,
                   selectedFestivalId, storage, tz, idClock, ops, last,
                   inflight, renderedAt, qualsVars>>

\* what is left when the page is closed: localStorage and the clocks
Unloaded(store) ==
    /\ appStage' = "loading"
    /\ currentUser' = None
    /\ users' = <<>>
    /\ posts' = <<>>
    /\ festivals' = <<>>
    /\ aufguesse' = <<>>
    /\ selectedFestivalId' = <<>>
    /\ storage' = store
    /\ inflight' = None
    /\ renderedAt' = now
    /\ availableQuals' = <<>>
    /\ editingUser' = None
    /\ selectedQuals' = <<>>
    /\ isQualsModalOpen' = FALSE
    /\ isManaging' = FALSE
    /\ editingUserInUsers' = FALSE
    /\ UNCHANGED <<now, tz, idClock>>

PageReload ==
    /\ appStage # "loading"
    /\ Unloaded(storage)
    /\ last' = NoOp
    /\ UNCHANGED ops

-----------------------------------------------------------------------------
(* Initial data loading effect, login and logout *)

\* the loadData effect, given what loadAllData returned
loadDataFrom(data) ==
    /\ users' = data.users
    /\ posts' = data.posts
    /\ aufguesse' = data.aufguesse
    /\ festivals' = data.festivals
    \* data.festivals.length throws when data.festivals is null: the
    \* catch block of loadData leaves selectedFestivalId as it is;
    \* the length of {} is undefined
    /\ selectedFestivalId' =
         IF data.festivals = JSNull THEN selectedFestivalId
         ELSE IF data.festivals = JSObject THEN <<>>
         ELSE IF Len(data.festivals) > 0
         THEN IF data.selectedFestivalId # <<>>
                 /\ \E i \in 1..Len(data.festivals) :
                        data.festivals[i].id = data.selectedFestivalId
              THEN data.selectedFestivalId
              ELSE data.festivals[1].id
         ELSE <<>>
    /\ appStage' = "login"
    /\ UNCHANGED <<currentUser, storage, now, tz, idClock, ops, last, inflight>>
    /\ renderedAt' = now
    /\ availableQuals' = data.availableQuals
    /\ UNCHANGED <<editingUser, selectedQuals, isQualsModalOpen, isManaging,
                   editingUserInUsers>>

loadData ==
    /\ appStage = "loading"
    /\ loadDataFrom(loadAllData(storage, now, tz))

ModelUsernames == {"admin", "anna", "nobody"}

handleLogin(username) ==
    /\ appStage = "login"
    /\ LET i == FindIndex(users, LAMBDA u : u.username = username)
       IN  IF i # 0
           THEN /\ currentUser' = Some(users[i])
                /\ appStage' = "loggedIn"
                /\ renderedAt' = now
                /\ UNCHANGED qualsVars
           ELSE UNCHANGED <<currentUser, appStage, renderedAt, qualsVars>>
    /\ UNCHANGED <<users, posts, festivals, aufguesse, selectedFestivalId,
                   storage, now, tz, idClock, ops, last, inflight>>

handleLogout ==
    /\ appStage = "loggedIn"
    /\ currentUser' = None
    /\ appStage' = "login"
    /\ UNCHANGED <<users, posts, festivals, aufguesse, selectedFestivalId,
                   storage, now, tz, idClock, ops, last,
                   inflight>>
    /\ renderedAt' = now
    /\ UNCHANGED qualsVars

\* the pages that hold the handlers are rendered for a logged-in user only
LoggedIn == appStage = "loggedIn" /\ currentUser # None
CanAct == LoggedIn /\ ops < MaxOps

\* users.find(u => u.id === id) || null
FindUser(us, id) ==
    LET i == FindIndex(us, LAMBDA u : u.id = id)
    IN  IF i # 0 THEN Some(us[i]) ELSE None

UserIds(us) == {us[i].id : i \in 1..Len(us)}
UserById(us, id) == us[FindIndex(us, LAMBDA u : u.id = id)]

-----------------------------------------------------------------------------
(* Aufguss handlers *)

SlotIds == {aufguesse[i].id : i \in 1..Len(aufguesse)}

SlotById(aufs, id) == aufs[FindIndex(aufs, LAMBDA a : a.id = id)]

\* newAufguesse of handleClaimAufguss
claimNewAufguesse(aufs, aufgussId, cu, type) ==
    MapSeq(LAMBDA a :
               IF a.id = aufgussId
               THEN [a EXCEPT !.aufgussmeisterId = cu.id,
                              !.aufgussmeisterName = cu.name,
                              !.type = type]
               ELSE a,
           aufs)

\* variant: the count of every user is incremented
claimNewUsers_EveryUser(us, uid) ==
    MapSeq(LAMBDA u : [u EXCEPT !.aufgussCount = u.aufgussCount + 1], us)

\* newUsers of handleClaimAufguss
claimNewUsers(us, uid) ==
    MapSeq(LAMBDA u :
               IF u.id = uid
               THEN [u EXCEPT !.aufgussCount = u.aufgussCount + 1]
               ELSE u,
           us)

handleClaimAufguss(aufgussId, type) ==
    /\ CanAct
    /\ LET cu == currentUser[1]
           newAufguesse == claimNewAufguesse(aufguesse, aufgussId, cu, type)
           newUsers == claimNewUsers(users, cu.id)
       IN  /\ aufguesse' = newAufguesse
           /\ users' = newUsers
           /\ currentUser' = FindUser(newUsers, cu.id)
           /\ storage' = saveData(saveData(storage, "aufguesse", newAufguesse),
                                  "users", newUsers)
           /\ last' = [op |-> "claim", uid |-> cu.id, key |-> aufgussId,
                       arg |-> type,
                       flag |-> SlotById(aufguesse, aufgussId).aufgussmeisterId # 0,
                       pre |-> IF FindUser(users, cu.id) # None
                               THEN FindUser(users, cu.id)[1].aufgussCount
                               ELSE 0,
                       chain |-> None]
    /\ ops' = ops + 1
    /\ UNCHANGED <<appStage, posts, festivals, selectedFestivalId, now, tz,
                   idClock, inflight>>
    /\ renderedAt' = now
    /\ UNCHANGED qualsVars

\* handleClaimAufguss when the page is closed during saveAufguesse
handleClaimAufgussUnloaded(aufgussId, type) ==
    /\ CanAct
    /\ LET cu == currentUser[1]
           newAufguesse == claimNewAufguesse(aufguesse, aufgussId, cu, type)
       IN  Unloaded(saveData(storage, "aufguesse", newAufguesse))
    /\ last' = NoOp
    /\ ops' = ops + 1

ShortNoticeHours == 24

\* variant: a slot exactly 24 hours away counts as short notice
isShortNotice_Inclusive(a, t, z) ==
    (ParseLocalDateTime(a.date, a.time, z) - t) <= ShortNoticeHours

\* isShortNotice of handleCancelAufguss
isShortNotice(a, t, z) ==
    LET aufgussDateTime == ParseLocalDateTime(a.date, a.time, z)
    IN  (aufgussDateTime - t) < ShortNoticeHours

\* variant: the type of the cancelled slot is kept
cancelNewAufguesse_KeepType(aufs, aufgussId) ==
    MapSeq(LAMBDA a :
               IF a.id = aufgussId
               THEN [a EXCEPT !.aufgussmeisterId = 0,
                              !.aufgussmeisterName = NULL]
               ELSE a,
           aufs)

\* newAufguesse of handleCancelAufguss
cancelNewAufguesse(aufs, aufgussId) ==
    MapSeq(LAMBDA a :
               IF a.id = aufgussId
               THEN [a EXCEPT !.aufgussmeisterId = 0,
                              !.aufgussmeisterName = NULL,
                              !.type = NULL]
               ELSE a,
           aufs)

\* variant: the count is not floored at 0
cancelNewCount_NoFloor(count) == count - 1

\* newCount of handleCancelAufguss
cancelNewCount(count) == IF count > 0 THEN count - 1 ELSE 0

\* variant: the count of the former owner is left as it is
cancelNewUsers_KeepCount(us, meisterId, short) ==
    MapSeq(LAMBDA u :
               IF u.id = meisterId
               THEN [u EXCEPT !.shortNoticeCancellations =
                                  IF short THEN u.shortNoticeCancellations + 1
                                  ELSE u.shortNoticeCancellations]
               ELSE u,
           us)

\* newUsers of handleCancelAufguss
cancelNewUsers(us, meisterId, short) ==
    MapSeq(LAMBDA u :
               IF u.id = meisterId
               THEN [u EXCEPT !.aufgussCount = cancelNewCount(u.aufgussCount),
                              !.shortNoticeCancellations =
                                  IF short THEN u.shortNoticeCancellations + 1
                                  ELSE u.shortNoticeCancellations]
               ELSE u,
           us)

\* confirmed: the answer to window.confirm
handleCancelAufguss(aufgussId, confirmed) ==
    /\ CanAct
    /\ LET cu == currentUser[1]
           aufgussToCancel == SlotById(aufguesse, aufgussId)
           meisterId == aufgussToCancel.aufgussmeisterId
           short == isShortNotice(aufgussToCancel, now, tz)
           newAufguesse == cancelNewAufguesse(aufguesse, aufgussId)
           newUsers == cancelNewUsers(users, meisterId, short)
       IN  /\ IF meisterId = 0 \/ ~confirmed
              THEN UNCHANGED <<aufguesse, users, currentUser, storage,
                               renderedAt, qualsVars>>
              ELSE /\ renderedAt' = now
                   /\ UNCHANGED qualsVars
                   /\ aufguesse' = newAufguesse
                   /\ users' = newUsers
                   /\ currentUser' = FindUser(newUsers, cu.id)
                   /\ storage' = saveData(saveData(storage, "aufguesse",
                                                   newAufguesse),
                                          "users", newUsers)
           /\ last' = [op |-> "cancel", uid |-> meisterId, key |-> aufgussId,
                       arg |-> IF short THEN "short" ELSE "early",
                       flag |-> meisterId # 0 /\ confirmed,
                       pre |-> IF FindUser(users, meisterId) # None
                               THEN FindUser(users, meisterId)[1].aufgussCount
                               ELSE 0,
                       chain |-> IF last.op = "claim" /\ ~last.flag
                                    /\ last.key = aufgussId
                                 THEN Some(last.pre) ELSE None]
    /\ ops' = ops + 1
    /\ UNCHANGED <<appStage, posts, festivals, selectedFestivalId, now, tz,
                   idClock, inflight>>

\* renderStage in stage loggedIn without a current user
renderStage ==
    /\ appStage = "loggedIn"
    /\ currentUser = None
    /\ appStage' = "login"
    /\ UNCHANGED <<currentUser, users, posts, festivals, aufguesse,
                   selectedFestivalId, storage, now, tz, idClock, ops, last,
                   inflight>>
    /\ renderedAt' = now
    /\ UNCHANGED qualsVars

\* confirmed: the answer to window.confirm
handleDeleteUser(userId, confirmed) ==
    /\ CanAct
    /\ IF confirmed
       THEN LET newUsers == FilterSeq(users, LAMBDA u : u.id # userId)
            IN  /\ users' = newUsers
                /\ storage' = saveData(storage, "users", newUsers)
                /\ renderedAt' = now
                /\ UNCHANGED qualsVars
       ELSE UNCHANGED <<users, storage, renderedAt, qualsVars>>
    /\ last' = [op |-> "deleteUser", uid |-> userId, key |-> <<>>,
                arg |-> NULL, flag |-> confirmed, pre |-> 0, chain |-> None]
    /\ ops' = ops + 1
    /\ UNCHANGED <<appStage, currentUser, posts, festivals, aufguesse,
                   selectedFestivalId, now, tz, idClock, inflight>>

NextAufguss ==
    \/ loadData
    \/ PageReload
    \/ Tick
    \/ \E n \in ModelUsernames : handleLogin(n)
    \/ handleLogout
    \/ \E id \in SlotIds, t \in ModelTypes : handleClaimAufguss(id, t)
    \/ \E id \in SlotIds, t \in ModelTypes : handleClaimAufgussUnloaded(id, t)
    \/ \E id \in SlotIds, c \in BOOLEAN : handleCancelAufguss(id, c)

\* the slot planner: claim and cancel
SpecAufguss == Init /\ [][NextAufguss]_vars

-----------------------------------------------------------------------------
(* Properties of the slot planner *)

\* a step of the handler named op
HandlerStep(op) == ops' = ops + 1 /\ last'.op = op

\* the owner fields of a slot
OwnerFields(a) == <<a.aufgussmeisterId, a.aufgussmeisterName, a.type>>

\* C1: claiming a slot that is already claimed leaves the slot's owner
\* fields and every user's aufgussCount as they were
C1_ClaimOnClaimedIsNoOp ==
    [][HandlerStep("claim") /\ last'.flag
       => /\ OwnerFields(SlotById(aufguesse', last'.key))
               = OwnerFields(SlotById(aufguesse, last'.key))
          /\ \A i \in 1..Len(users) :
               users'[i].aufgussCount = users[i].aufgussCount]_vars

C16_OwnerFieldsAllOrNone ==
    \A i \in 1..Len(aufguesse) :
        LET a == aufguesse[i]
        IN  \/ a.aufgussmeisterId = 0 /\ a.aufgussmeisterName = NULL
               /\ a.type = NULL
            \/ a.aufgussmeisterId # 0 /\ a.aufgussmeisterName # NULL
               /\ a.type # NULL

\* a slot was cancelled while another slot is held by a claim of the session
C16_Witness ==
    /\ last.op = "cancel" /\ last.flag
    /\ OwnerFields(SlotById(aufguesse, last.key)) = <<0, NULL, NULL>>
    /\ \E i \in 1..Len(aufguesse) :
          /\ aufguesse[i].aufgussmeisterId \in {1, 3}
          /\ aufguesse[i].type \in ModelTypes

-----------------------------------------------------------------------------
(* Social feed handlers *)

PostIds == {posts[i].id : i \in 1..Len(posts)}
PostById(ps, id) == ps[FindIndex(ps, LAMBDA p : p.id = id)]

\* ids drawn from Date.now(): later than every seeded id, never repeated
IdBase == 1000
DateNowId(clock) == IdBase + clock

\* options of a poll written in the poll creator (two options at least)
NewPollOptions == << [votes |-> <<>>], [votes |-> <<>>] >>

handleAddPost(type) ==
    /\ CanAct
    /\ Len(posts) < MaxPosts
    /\ LET cu == currentUser[1]
           newPost == [id |-> DateNowId(idClock), userId |-> cu.id,
                       type |-> type, likes |-> <<>>,
                       options |-> IF type = "poll" THEN NewPollOptions
                                   ELSE <<>>]
           newPosts == <<newPost>> \o posts
       IN  /\ posts' = newPosts
           /\ storage' = saveData(storage, "posts", newPosts)
           /\ last' = [op |-> "addPost", uid |-> cu.id, key |-> newPost.id,
                       arg |-> type, flag |-> TRUE, pre |-> 0,
                       chain |-> None]
    /\ idClock' = idClock + 1
    /\ ops' = ops + 1
    /\ UNCHANGED <<appStage, currentUser, users, festivals, aufguesse,
                   selectedFestivalId, now, tz, inflight>>
    /\ renderedAt' = now
    /\ UNCHANGED qualsVars

\* variant: a like is added whether or not the user already likes the post
likeNewLikes_AlwaysAdd(likes, uid) == Append(likes, uid)

\* newLikes of handleLikePost
likeNewLikes(likes, uid) ==
    IF uid \in Range(likes)
    THEN FilterSeq(likes, LAMBDA id : id # uid)
    ELSE Append(likes, uid)

handleLikePost(postId) ==
    /\ CanAct
    /\ LET cu == currentUser[1]
           newPosts == MapSeq(LAMBDA p :
                                  IF p.id = postId
                                  THEN [p EXCEPT !.likes =
                                           likeNewLikes(p.likes, cu.id)]
                                  ELSE p,
                              posts)
       IN  /\ posts' = newPosts
           /\ storage' = saveData(storage, "posts", newPosts)
           /\ last' = [op |-> "like", uid |-> cu.id, key |-> postId,
                       arg |-> NULL, flag |-> TRUE,
                       pre |-> Range(PostById(posts, postId).likes),
                       chain |-> IF last.op = "like" /\ last.key = postId
                                    /\ last.uid = cu.id
                                 THEN Some(last.pre) ELSE None]
    /\ ops' = ops + 1
    /\ UNCHANGED <<appStage, currentUser, users, festivals, aufguesse,
                   selectedFestivalId, now, tz, idClock, inflight>>
    /\ renderedAt' = now
    /\ UNCHANGED qualsVars

\* variant: only the chosen option is searched for an earlier vote
hasVoted_ChosenOptionOnly(options, uid, optionIndex) ==
    optionIndex \in 1..Len(options)
    /\ uid \in Range(options[optionIndex].votes)

\* p.pollData.options.some(opt => opt.votes.includes(currentUser.id))
hasVoted(options, uid, optionIndex) ==
    \E i \in 1..Len(options) : uid \in Range(options[i].votes)

\* newOptions of onVote; optionIndex counts from 1
voteNewOptions(options, uid, optionIndex) ==
    [i \in 1..Len(options) |->
        IF i = optionIndex
        THEN [options[i] EXCEPT !.votes = Append(options[i].votes, uid)]
        ELSE options[i]]

ModelOptionIndexes == 1..3

onVote(postId, optionIndex) ==
    /\ CanAct
    /\ LET cu == currentUser[1]
           newPosts ==
               MapSeq(LAMBDA p :
                          IF p.id = postId /\ p.type = "poll"
                             /\ p.options # <<>>
                          THEN IF hasVoted(p.options, cu.id, optionIndex)
                               THEN p
                               ELSE [p EXCEPT !.options =
                                       voteNewOptions(p.options, cu.id,
                                                      optionIndex)]
                          ELSE p,
                      posts)
       IN  /\ posts' = newPosts
           /\ storage' = saveData(storage, "posts", newPosts)
           /\ last' = [op |-> "vote", uid |-> cu.id, key |-> postId,
                       arg |-> NULL,
                       flag |-> \E i \in 1..Len(PostById(posts, postId).options) :
                                   cu.id \in Range(PostById(posts, postId)
                                                     .options[i].votes),
                       pre |-> optionIndex, chain |-> None]
    /\ ops' = ops + 1
    /\ UNCHANGED <<appStage, currentUser, users, festivals, aufguesse,
                   selectedFestivalId, now, tz, idClock, inflight>>
    /\ renderedAt' = now
    /\ UNCHANGED qualsVars

NextSocial ==
    \/ loadData
    \/ PageReload
    \/ \E n \in ModelUsernames : handleLogin(n)
    \/ handleLogout
    \/ \E t \in {"text", "poll"} : handleAddPost(t)
    \/ \E id \in PostIds : handleLikePost(id)
    \/ \E id \in PostIds, k \in ModelOptionIndexes : onVote(id, k)

\* the social feed: posts, likes and polls
SpecSocial == Init /\ [][NextSocial]_vars

\* the number of entries of a vote list that are the user id
RECURSIVE CountIn(_, _)
CountIn(votes, uid) ==
    IF votes = <<>> THEN 0
    ELSE (IF Head(votes) = uid THEN 1 ELSE 0) + CountIn(Tail(votes), uid)

RECURSIVE TotalVotes(_, _)
TotalVotes(options, uid) ==
    IF options = <<>> THEN 0
    ELSE CountIn(Head(options).votes, uid) + TotalVotes(Tail(options), uid)

AllVoters(p) == UNION {Range(p.options[i].votes) : i \in 1..Len(p.options)}

\* C3: in every poll each user id occurs at most once over the vote lists of
\* all options, and a vote by a user who has already voted on the poll
\* changes nothing
C3_OneVotePerUserPerPoll ==
    /\ [](\A i \in 1..Len(posts) : \A uid \in AllVoters(posts[i]) :
             TotalVotes(posts[i].options, uid) <= 1)
    /\ [][HandlerStep("vote") /\ last'.flag => posts' = posts]_vars

\* a user who had voted on the seeded poll votes for another option of it
C3_Witness ==
    /\ last.op = "vote" /\ last.flag /\ last.key = 3 /\ last.uid = 1
    /\ last.pre = 2
    /\ TotalVotes(PostById(posts, 3).options, 1) = 1

\* C4: one toggle adds the acting user to the post's likes if absent and
\* removes it if present and leaves every other post as it was; two toggles
\* in a row by the same user on the same post restore the set of likes
C4_LikeToggle ==
    /\ []((last.op = "like" /\ last.chain # None /\ last.key \in PostIds)
            => Range(PostById(posts, last.key).likes) = last.chain[1])
    /\ [][HandlerStep("like")
          => /\ Len(posts') = Len(posts)
             /\ \A i \in 1..Len(posts) :
                  IF posts[i].id = last'.key
                  THEN Range(posts'[i].likes) =
                         IF last'.uid \in Range(posts[i].likes)
                         THEN Range(posts[i].likes) \ {last'.uid}
                         ELSE Range(posts[i].likes) \cup {last'.uid}
                  ELSE posts'[i] = posts[i]]_vars

\* a user who liked the post beforehand has toggled twice
C4_Witness ==
    /\ last.op = "like" /\ last.chain # None
    /\ last.uid \in last.chain[1]
    /\ last.uid \in Range(PostById(posts, last.key).likes)

-----------------------------------------------------------------------------
(* Registration *)

handleGoToRegister ==
    /\ appStage = "login"
    /\ appStage' = "register"
    /\ UNCHANGED <<currentUser, users, posts, festivals, aufguesse,
                   selectedFestivalId, storage, now, tz, idClock, ops, last,
                   inflight>>
    /\ renderedAt' = now
    /\ UNCHANGED qualsVars

handleBackToLogin ==
    /\ appStage \in {"register", "profile_setup"}
    /\ appStage' = "login"
    /\ UNCHANGED <<currentUser, users, posts, festivals, aufguesse,
                   selectedFestivalId, storage, now, tz, idClock, ops, last,
                   inflight>>
    /\ renderedAt' = now
    /\ UNCHANGED qualsVars

handleCodeSubmit ==
    /\ appStage = "register"
    /\ appStage' = "profile_setup"
    /\ UNCHANGED <<currentUser, users, posts, festivals, aufguesse,
                   selectedFestivalId, storage, now, tz, idClock, ops, last,
                   inflight>>
    /\ renderedAt' = now
    /\ UNCHANGED qualsVars

\* newUser of handleCompleteRegistration
NewUser(id, username) ==
    [id |-> id, name |-> username, username |-> username,
     isAdmin |-> FALSE, aufgussCount |-> 0, workHours |-> 0,
     shortNoticeCancellations |-> 0, qualifications |-> <<>>,
     permissions |-> <<>>]

\* variant: the festivals are left without a record for the new user
registrationNewFestivals_NoRecord(fs, uid) == fs

\* newFestivals of handleCompleteRegistration
registrationNewFestivals(fs, uid) ==
    MapSeq(LAMBDA festival :
               IF \E i \in 1..Len(festival.participants) :
                      festival.participants[i].userId = uid
               THEN festival
               ELSE [festival EXCEPT !.participants =
                        Append(festival.participants, PendingParticipant(uid))],
           fs)

ModelNewUsernames == {"neu"}

handleCompleteRegistration(username) ==
    /\ appStage = "profile_setup"
    /\ ops < MaxOps
    /\ Len(users) < Len(MOCK_USERS) + MaxNewUsers
    /\ LET newUser == NewUser(DateNowId(idClock), username)
           newFestivals == registrationNewFestivals(festivals, newUser.id)
           newUsers == Append(users, newUser)
       IN  /\ festivals' = newFestivals
           /\ users' = newUsers
           /\ storage' = saveData(saveData(storage, "festivals", newFestivals),
                                  "users", newUsers)
           /\ currentUser' = Some(newUser)
           /\ last' = [op |-> "register", uid |-> newUser.id, key |-> <<>>,
                       arg |-> username, flag |-> TRUE, pre |-> 0,
                       chain |-> None]
    /\ appStage' = "loggedIn"
    /\ idClock' = idClock + 1
    /\ ops' = ops + 1
    /\ UNCHANGED <<posts, aufguesse, selectedFestivalId, now, tz, inflight>>
    /\ renderedAt' = now
    /\ UNCHANGED qualsVars

-----------------------------------------------------------------------------
(* Festival handlers *)

FestivalIds == {festivals[i].id : i \in 1..Len(festivals)}
FestivalById(fs, id) == fs[FindIndex(fs, LAMBDA f : f.id = id)]

\* canCreateFestivals of FestivalPlanner
canCreateFestivals(user) ==
    user.isAdmin \/ "create_festivals" \in Range(user.permissions)

\* variant: only administrators get a participant record
createParticipants_AdminsOnly(us) ==
    MapSeq(LAMBDA u : PendingParticipant(u.id),
           FilterSeq(us, LAMBDA u : u.isAdmin))

\* participants of handleCreateFestival
createParticipants(us) == MapSeq(LAMBDA u : PendingParticipant(u.id), us)

\* newFestival of handleCreateFestival
newFestival(festivalData, id, us, z) ==
    [id |-> id,
     name |-> festivalData.name,
     startDate |-> festivalData.startDate,
     endDate |-> festivalData.endDate,
     rsvpDeadline |-> getThursdayBefore(ParseDate(festivalData.startDate), z),
     tasks |-> <<>>,
     participants |-> createParticipants(us)]

\* newFestivals of handleUpdateFestival
updateNewFestivals(fs, updatedFestival) ==
    MapSeq(LAMBDA f : IF f.id = updatedFestival.id THEN updatedFestival ELSE f,
           fs)

\* the start dates entered in the festival form, as days after the day the
\* page was first opened; the festival lasts FestivalLengthDays more days
ModelStartOffsets == {10, 17}

FormDates == {[startDate |-> IsoDate(s) + d,
               endDate |-> IsoDate(s) + d + FestivalLengthDays] :
                 s \in StartTimes, d \in ModelStartOffsets}

\* handleSaveForm of FestivalPlanner in mode 'create': handleCreateFestival
handleSaveFormCreate(dates) ==
    /\ CanAct
    /\ canCreateFestivals(currentUser[1])
    /\ Len(festivals) < MaxFestivals
    /\ LET festivalData == [name |-> "Neues Fest",
                            startDate |-> dates.startDate,
                            endDate |-> dates.endDate]
           created == newFestival(festivalData,
                                  <<"fest", DateNowId(idClock)>>, users, tz)
           newFestivals == Append(festivals, created)
       IN  /\ festivals' = newFestivals
           /\ selectedFestivalId' = created.id
           /\ storage' = saveSelectedFestivalId(
                             saveData(storage, "festivals", newFestivals),
                             created.id)
           /\ last' = [op |-> "createFestival", uid |-> currentUser[1].id,
                       key |-> created.id, arg |-> NULL, flag |-> TRUE,
                       pre |-> 0, chain |-> None]
    /\ idClock' = idClock + 1
    /\ ops' = ops + 1
    /\ UNCHANGED <<appStage, currentUser, users, posts, aufguesse, now, tz,
                   inflight>>
    /\ renderedAt' = now
    /\ UNCHANGED qualsVars

\* handleSaveForm of FestivalPlanner in mode 'edit': the form holds the
\* selected festival with the edited dates; handleUpdateFestival
handleSaveFormEdit(dates) ==
    /\ CanAct
    /\ canCreateFestivals(currentUser[1])
    /\ selectedFestivalId \in FestivalIds
    /\ LET selectedFestival == FestivalById(festivals, selectedFestivalId)
           formData == [selectedFestival EXCEPT
                           !.startDate = dates.startDate,
                           !.endDate = dates.endDate]
           newFestivals == updateNewFestivals(festivals, formData)
       IN  /\ festivals' = newFestivals
           /\ storage' = saveData(storage, "festivals", newFestivals)
           /\ last' = [op |-> "editFestival", uid |-> currentUser[1].id,
                       key |-> selectedFestivalId, arg |-> NULL,
                       flag |-> dates.startDate # selectedFestival.startDate,
                       pre |-> selectedFestival.startDate, chain |-> None]
    /\ ops' = ops + 1
    /\ UNCHANGED <<appStage, currentUser, users, posts, aufguesse,
                   selectedFestivalId, now, tz, idClock, inflight>>
    /\ renderedAt' = now
    /\ UNCHANGED qualsVars

\* isDeadlinePassed of FestivalPlanner
isDeadlinePassed(f, t) == t > f.rsvpDeadline

\* the RSVP buttons are rendered: member view, deadline not passed when the
\* view was rendered at t, pending
RsvpOffered(f, user, t) ==
    /\ ~user.isAdmin
    /\ ~isDeadlinePassed(f, t)
    /\ \E i \in 1..Len(f.participants) :
          f.participants[i].userId = user.id
          /\ f.participants[i].status = "pending"

\* handleRsvp of FestivalPlanner
handleRsvp(status) ==
    /\ CanAct
    /\ selectedFestivalId \in FestivalIds
    /\ LET user == currentUser[1]
           selectedFestival == FestivalById(festivals, selectedFestivalId)
           updatedParticipants ==
               MapSeq(LAMBDA p : IF p.userId = user.id
                                 THEN [p EXCEPT !.status = status] ELSE p,
                      selectedFestival.participants)
           newFestivals ==
               updateNewFestivals(festivals,
                   [selectedFestival EXCEPT !.participants = updatedParticipants])
       IN  /\ RsvpOffered(selectedFestival, user, renderedAt)
           /\ festivals' = newFestivals
           /\ storage' = saveData(storage, "festivals", newFestivals)
           /\ last' = [op |-> "rsvp", uid |-> user.id,
                       key |-> selectedFestivalId, arg |-> status,
                       flag |-> TRUE, pre |-> 0, chain |-> None]
    /\ ops' = ops + 1
    /\ UNCHANGED <<appStage, currentUser, users, posts, aufguesse,
                   selectedFestivalId, now, tz, idClock, inflight>>
    /\ renderedAt' = now
    /\ UNCHANGED qualsVars

handleSelectFestival(id) ==
    /\ CanAct
    /\ selectedFestivalId' = id
    /\ storage' = saveSelectedFestivalId(storage, id)
    /\ last' = [op |-> "selectFestival", uid |-> currentUser[1].id,
                key |-> id, arg |-> NULL, flag |-> TRUE, pre |-> 0,
                chain |-> None]
    /\ ops' = ops + 1
    /\ UNCHANGED <<appStage, currentUser, users, posts, festivals, aufguesse,
                   now, tz, idClock, inflight>>
    /\ renderedAt' = now
    /\ UNCHANGED qualsVars

\* variant: the selection is cleared although festivals remain
deleteNewId_Cleared(newFestivals) == <<>>

\* newId of onDeleteFestival
deleteNewId(newFestivals) ==
    IF Len(newFestivals) > 0 THEN newFestivals[1].id ELSE <<>>

\* confirmed: the answer to window.confirm
onDeleteFestival(festivalId, confirmed) ==
    /\ CanAct
    /\ IF confirmed
       THEN LET newFestivals ==
                    FilterSeq(festivals, LAMBDA f : f.id # festivalId)
            IN  /\ festivals' = newFestivals
                /\ renderedAt' = now
                /\ UNCHANGED qualsVars
                /\ IF selectedFestivalId = festivalId
                   THEN /\ selectedFestivalId' = deleteNewId(newFestivals)
                        /\ storage' = saveSelectedFestivalId(
                               saveData(storage, "festivals", newFestivals),
                               deleteNewId(newFestivals))
                   ELSE /\ UNCHANGED selectedFestivalId
                        /\ storage' = saveData(storage, "festivals",
                                               newFestivals)
       ELSE UNCHANGED <<festivals, selectedFestivalId, storage, renderedAt, qualsVars>>
    /\ last' = [op |-> "deleteFestival", uid |-> currentUser[1].id,
                key |-> festivalId, arg |-> NULL, flag |-> confirmed,
                pre |-> IF selectedFestivalId = festivalId
                        THEN "selected" ELSE "other",
                chain |-> None]
    /\ ops' = ops + 1
    /\ UNCHANGED <<appStage, currentUser, users, posts, aufguesse, now, tz,
                   idClock, inflight>>

NextFestival ==
    \/ loadData
    \/ PageReload
    \/ \E n \in ModelUsernames \cup ModelNewUsernames : handleLogin(n)
    \/ handleLogout
    \/ handleGoToRegister
    \/ handleCodeSubmit
    \/ handleBackToLogin
    \/ \E n \in ModelNewUsernames : handleCompleteRegistration(n)
    \/ \E d \in FormDates : handleSaveFormCreate(d)
    \/ \E d \in FormDates : handleSaveFormEdit(d)
    \/ \E st \in {"attending", "not_attending"} : handleRsvp(st)
    \/ \E id \in FestivalIds : handleSelectFestival(id)
    \/ \E id \in FestivalIds, c \in BOOLEAN : onDeleteFestival(id, c)
    \/ \E id \in UserIds(users), c \in BOOLEAN : handleDeleteUser(id, c)

\* the festival planner and the registration of new members
SpecFestival == Init /\ [][NextFestival]_vars

-----------------------------------------------------------------------------
(* Properties of the festival planner *)

ParticipantRecords(f, uid) ==
    {i \in 1..Len(f.participants) : f.participants[i].userId = uid}

\* C9: every festival holds exactly one participant record for every user
\* of the users collection
C9_OneParticipantPerUser ==
    \A i \in 1..Len(festivals) : \A j \in 1..Len(users) :
        Cardinality(ParticipantRecords(festivals[i], users[j].id)) = 1

\* a member has registered while two festivals exist, one of them created
\* in the session
C9_Witness ==
    /\ last.op = "register"
    /\ Len(festivals) = 2
    /\ last.uid \in UserIds(users)
    /\ \A i \in 1..Len(festivals) :
          Cardinality(ParticipantRecords(festivals[i], last.uid)) = 1

\* C10: the rsvpDeadline of every festival is 22:00 local time on the last
\* Thursday before the festival's start date
C10_DeadlineIsThursdayBeforeStart ==
    \A i \in 1..Len(festivals) :
        LET f == festivals[i]
            deadlineDay == (f.rsvpDeadline + tz) \div 24
        IN  /\ (f.rsvpDeadline + tz) % 24 = 22
            /\ (deadlineDay + 4) % 7 = 4
            /\ deadlineDay < f.startDate
            /\ f.startDate - deadlineDay <= 7

-----------------------------------------------------------------------------
(* Festival participation: RSVP deadline and work hours *)

\* the instants at which the page is looked at again after it was opened at
\* s: the RSVP deadline of the seeded festival, the hour after it and the
\* hour after the festival's end date
ModelLaterInstants(s, z) ==
    LET f == MOCK_FESTIVALS(s, z)[1]
    IN  {f.rsvpDeadline, f.rsvpDeadline + 1, ParseDate(f.endDate) + 1}

\* the clock advances while nothing happens in the page
TimePasses(t) ==
    /\ t > now
    /\ \E s \in StartTimes : t \in ModelLaterInstants(s, tz)
    /\ now' = t
    /\ UNCHANGED <<appStage, currentUser, users, posts, festivals, aufguesse,
                   selectedFestivalId, storage, tz, idClock, ops, last,
                   inflight, renderedAt, qualsVars>>

\* isFestivalOver of FestivalPlanner
isFestivalOver(f, t) == t > ParseDate(f.endDate)

\* variant: the form is offered although the hours are already logged
canLogHours_IgnoreFlag(f, p, t) ==
    isFestivalOver(f, t) /\ p.status = "attending"

\* canLogHours of renderMemberView, for a view rendered at t
canLogHours(f, p, t) ==
    isFestivalOver(f, t) /\ p.status = "attending" /\ ~p.hoursLogged

\* newFestivals of handleLogHours
logHoursNewFestivals(fs, festivalId, uid, hours) ==
    MapSeq(LAMBDA f :
               IF f.id = festivalId
               THEN [f EXCEPT !.participants =
                       MapSeq(LAMBDA p :
                                  IF p.userId = uid
                                  THEN [p EXCEPT !.workHours = hours,
                                                 !.hoursLogged = TRUE]
                                  ELSE p,
                              f.participants)]
               ELSE f,
           fs)

\* variant: the hours are added to every user
logHoursNewUsers_EveryUser(us, uid, hours) ==
    MapSeq(LAMBDA u : [u EXCEPT !.workHours = u.workHours + hours], us)

\* newUsers of handleLogHours
logHoursNewUsers(us, uid, hours) ==
    MapSeq(LAMBDA u :
               IF u.id = uid
               THEN [u EXCEPT !.workHours = u.workHours + hours]
               ELSE u,
           us)

\* the participant record of a user in a festival
ParticipantOf(f, uid) ==
    f.participants[FindIndex(f.participants, LAMBDA p : p.userId = uid)]

handleLogHours(festivalId, hours) ==
    /\ currentUser # None
    /\ LET cu == currentUser[1]
           newFestivals == logHoursNewFestivals(festivals, festivalId, cu.id,
                                                hours)
           newUsers == logHoursNewUsers(users, cu.id, hours)
       IN  /\ festivals' = newFestivals
           /\ users' = newUsers
           /\ storage' = saveData(saveData(storage, "festivals", newFestivals),
                                  "users", newUsers)
           /\ last' = [op |-> "logHours", uid |-> cu.id, key |-> festivalId,
                       arg |-> NULL,
                       flag |-> ParticipantOf(FestivalById(festivals, festivalId),
                                              cu.id).hoursLogged,
                       pre |-> hours, chain |-> None]
    /\ ops' = ops + 1
    /\ UNCHANGED <<appStage, currentUser, posts, aufguesse, selectedFestivalId,
                   now, tz, idClock, inflight>>
    /\ renderedAt' = now
    /\ UNCHANGED qualsVars

\* the hours typed into the form
ModelHoursWorked == {0, 8}

\* handleLogHoursSubmit of FestivalPlanner, from the form of renderMemberView
handleLogHoursSubmit(hours) ==
    /\ CanAct
    /\ selectedFestivalId \in FestivalIds
    /\ LET user == currentUser[1]
           selectedFestival == FestivalById(festivals, selectedFestivalId)
       IN  /\ ~user.isAdmin
           /\ ParticipantRecords(selectedFestival, user.id) # {}
           /\ canLogHours(selectedFestival,
                          ParticipantOf(selectedFestival, user.id), renderedAt)
    /\ hours > 0
    /\ handleLogHours(selectedFestivalId, hours)

NextHours ==
    \/ loadData
    \/ PageReload
    \/ \E n \in ModelUsernames : handleLogin(n)
    \/ handleLogout
    \/ \E t \in UNION {ModelLaterInstants(s, tz) : s \in StartTimes} :
          TimePasses(t)
    \/ \E st \in {"attending", "not_attending"} : handleRsvp(st)
    \/ \E h \in ModelHoursWorked : handleLogHoursSubmit(h)

\* festival participation of a member: RSVP and work hours
SpecHours == Init /\ [][NextHours]_vars

\* C11: once a participant's hoursLogged flag is true, no step changes that
\* participant's workHours or clears the flag, and no Log festival hours for
\* that festival and user is run again, so the user's global workHours are
\* not raised a second time
C11_LogHoursAtMostOnce ==
    [][/\ \A i \in 1..Len(festivals) : \A i2 \in 1..Len(festivals') :
            \A j \in 1..Len(festivals[i].participants) :
              \A j2 \in 1..Len(festivals'[i2].participants) :
                LET p == festivals[i].participants[j]
                    p2 == festivals'[i2].participants[j2]
                IN  (festivals[i].id = festivals'[i2].id /\ p.userId = p2.userId
                     /\ p.hoursLogged)
                        => p2.hoursLogged /\ p2.workHours = p.workHours
       /\ (HandlerStep("logHours") /\ last'.flag) => users' = users]_vars

\* the hours are logged and further handlers can still be run
C11_Witness ==
    /\ last.op = "logHours" /\ ops < MaxOps /\ LoggedIn
    /\ last.key \in FestivalIds
    /\ ParticipantOf(FestivalById(festivals, last.key), last.uid).hoursLogged
    /\ ParticipantOf(FestivalById(festivals, last.key), last.uid).workHours
           = last.pre

C13_NoRsvpAfterDeadline ==
    [][\A i \in 1..Len(festivals) : \A i2 \in 1..Len(festivals') :
         \A j \in 1..Len(festivals[i].participants) :
           \A j2 \in 1..Len(festivals'[i2].participants) :
             LET p == festivals[i].participants[j]
                 p2 == festivals'[i2].participants[j2]
             IN  (festivals[i].id = festivals'[i2].id /\ p.userId = p2.userId
                  /\ isDeadlinePassed(festivals[i], now))
                     => p2.status = p.status]_vars

\* C14: Create festival appends exactly one festival, whose id is the id of
\* no festival that existed, with no tasks and with exactly one participant
\* record, pending and empty, for every user of the users collection; the
\* festivals that existed are unchanged
C14_CreateFestivalEffect ==
    [][HandlerStep("createFestival")
       => LET created == festivals'[Len(festivals')]
          IN  /\ Len(festivals') = Len(festivals) + 1
              /\ SubSeq(festivals', 1, Len(festivals)) = festivals
              /\ created.id = last'.key
              /\ created.id \notin FestivalIds
              /\ created.tasks = <<>>
              /\ Len(created.participants) = Len(users)
              /\ \A j \in 1..Len(users) :
                   /\ Cardinality(ParticipantRecords(created, users[j].id)) = 1
                   /\ ParticipantOf(created, users[j].id) =
                        [userId |-> users[j].id, status |-> "pending",
                         aufgussAvailability |-> <<>>, workHours |-> 0,
                         hoursLogged |-> FALSE, aufgussProposals |-> <<>>]]_vars

\* a festival was created after a member had registered in the session
C14_Witness ==
    /\ last.op = "createFestival" /\ last.key \in FestivalIds
    /\ Len(festivals) = 2 /\ Len(users) = 4
    /\ Len(FestivalById(festivals, last.key).participants) = 4
    /\ FestivalById(festivals, last.key).tasks = <<>>

-----------------------------------------------------------------------------
(* Festival tasks *)

TaskIds(f) == {f.tasks[i].id : i \in 1..Len(f.tasks)}
TaskById(f, id) == f.tasks[FindIndex(f.tasks, LAMBDA t : t.id = id)]

\* the festival with its tasks replaced, handed to handleUpdateFestival
withTasks(f, updatedTasks) == [f EXCEPT !.tasks = updatedTasks]

\* variant: the task's own id is written into responsible
taskClaimNewTasks_TaskId(tasks, taskId, uid) ==
    MapSeq(LAMBDA t : IF t.id = taskId THEN [t EXCEPT !.responsible = t.id]
                      ELSE t,
           tasks)

\* updatedTasks of handleTaskClaim and handleAdminTaskAssign; uid 0 is null
taskClaimNewTasks(tasks, taskId, uid) ==
    MapSeq(LAMBDA t : IF t.id = taskId THEN [t EXCEPT !.responsible = uid]
                      ELSE t,
           tasks)

\* renderMemberView is rendered with its task list: a member with a
\* participant record
MemberViewOf(f, user) ==
    ~user.isAdmin /\ ParticipantRecords(f, user.id) # {}

\* what handleUpdate does with the updated festival
festivalUpdated(f, opName, taskId) ==
    LET newFestivals == updateNewFestivals(festivals, f)
    IN  /\ festivals' = newFestivals
        /\ storage' = saveData(storage, "festivals", newFestivals)
        /\ last' = [op |-> opName, uid |-> currentUser[1].id, key |-> f.id,
                    arg |-> NULL, flag |-> TRUE, pre |-> taskId,
                    chain |-> None]
        /\ ops' = ops + 1
        /\ UNCHANGED <<appStage, currentUser, users, posts, aufguesse,
                       selectedFestivalId, now, tz, inflight>>
        /\ renderedAt' = now
        /\ UNCHANGED qualsVars

\* handleTaskClaim: the button of a task shown as free, that is, whose
\* responsible is no user of the users collection
handleTaskClaim(taskId) ==
    /\ CanAct
    /\ selectedFestivalId \in FestivalIds
    /\ LET user == currentUser[1]
           selectedFestival == FestivalById(festivals, selectedFestivalId)
       IN  /\ MemberViewOf(selectedFestival, user)
           /\ taskId \in TaskIds(selectedFestival)
           /\ TaskById(selectedFestival, taskId).responsible \notin UserIds(users)
           /\ festivalUpdated(
                  withTasks(selectedFestival,
                            taskClaimNewTasks(selectedFestival.tasks, taskId,
                                              user.id)),
                  "taskClaim", taskId)
    /\ UNCHANGED idClock

\* handleTaskRelease: the button of a task of the acting member
handleTaskRelease(taskId) ==
    /\ CanAct
    /\ selectedFestivalId \in FestivalIds
    /\ LET user == currentUser[1]
           selectedFestival == FestivalById(festivals, selectedFestivalId)
       IN  /\ MemberViewOf(selectedFestival, user)
           /\ taskId \in TaskIds(selectedFestival)
           /\ TaskById(selectedFestival, taskId).responsible = user.id
           /\ user.id \in UserIds(users)
           /\ festivalUpdated(
                  withTasks(selectedFestival,
                            taskClaimNewTasks(selectedFestival.tasks, taskId, 0)),
                  "taskRelease", taskId)
    /\ UNCHANGED idClock

\* attendingUsers of FestivalPlanner, as ids
attendingUsers(f, us) ==
    {f.participants[i].userId : i \in
        {k \in 1..Len(f.participants) :
            /\ f.participants[k].status = "attending"
            /\ f.participants[k].userId \in UserIds(us)}}

\* handleAdminTaskAssign: the unassign button of an assigned task
\* (responsibleId 0), or an entry of the select of an unassigned one
handleAdminTaskAssign(taskId, responsibleId) ==
    /\ CanAct
    /\ selectedFestivalId \in FestivalIds
    /\ LET user == currentUser[1]
           selectedFestival == FestivalById(festivals, selectedFestivalId)
       IN  /\ user.isAdmin
           /\ taskId \in TaskIds(selectedFestival)
           /\ IF TaskById(selectedFestival, taskId).responsible # 0
              THEN responsibleId = 0
              ELSE responsibleId \in attendingUsers(selectedFestival, users)
           /\ festivalUpdated(
                  withTasks(selectedFestival,
                            taskClaimNewTasks(selectedFestival.tasks, taskId,
                                              responsibleId)),
                  "taskAssign", taskId)
    /\ UNCHANGED idClock

\* handleAddTask, from the task dialog of the admin view
handleAddTask ==
    /\ CanAct
    /\ selectedFestivalId \in FestivalIds
    /\ LET user == currentUser[1]
           selectedFestival == FestivalById(festivals, selectedFestivalId)
           newTask == [id |-> DateNowId(idClock), responsible |-> 0]
       IN  /\ user.isAdmin
           /\ Len(selectedFestival.tasks) < MaxTasks
           /\ festivalUpdated(
                  withTasks(selectedFestival,
                            Append(selectedFestival.tasks, newTask)),
                  "addTask", newTask.id)
    /\ idClock' = idClock + 1

\* all task ids of the festivals held
AllTaskIds == UNION {TaskIds(festivals[i]) : i \in 1..Len(festivals)}

NextTasks ==
    \/ loadData
    \/ PageReload
    \/ \E n \in ModelUsernames \cup ModelNewUsernames : handleLogin(n)
    \/ handleLogout
    \/ handleGoToRegister
    \/ handleCodeSubmit
    \/ \E n \in ModelNewUsernames : handleCompleteRegistration(n)
    \/ \E st \in {"attending", "not_attending"} : handleRsvp(st)
    \/ \E id \in AllTaskIds : handleTaskClaim(id)
    \/ \E id \in AllTaskIds : handleTaskRelease(id)
    \/ \E id \in AllTaskIds, u \in UserIds(users) \cup {0} :
          handleAdminTaskAssign(id, u)
    \/ handleAddTask
    \/ \E id \in UserIds(users), c \in BOOLEAN : handleDeleteUser(id, c)

\* the tasks of a festival
SpecTasks == Init /\ [][NextTasks]_vars

\* C15: every task whose responsible is set names the userId of a
\* participant record of the same festival
C15_ResponsibleIsParticipant ==
    \A i \in 1..Len(festivals) : \A k \in 1..Len(festivals[i].tasks) :
        festivals[i].tasks[k].responsible # 0
            => ParticipantRecords(festivals[i],
                                  festivals[i].tasks[k].responsible) # {}

\* a user who is responsible for a task was deleted from the users collection
C15_Witness ==
    /\ last.op = "deleteUser" /\ last.flag
    /\ last.uid \notin UserIds(users)
    /\ \E i \in 1..Len(festivals) : \E k \in 1..Len(festivals[i].tasks) :
          /\ festivals[i].tasks[k].responsible = last.uid
          /\ ParticipantRecords(festivals[i], last.uid) # {}

-----------------------------------------------------------------------------
(* The bulk load over stored values of every kind *)

\* the keys that hold a collection
CollectionKeys == {"users", "posts", "festivals", "aufguesse"}

\* collections saved by an earlier session that was opened at s; each differs
\* from the default of its key
StoredCollection(key, s, z) ==
    CASE key = "users" -> claimNewUsers(MOCK_USERS, 3)
      [] key = "posts" -> SubSeq(MOCK_POSTS, 1, 2)
      [] key = "festivals" ->
             logHoursNewFestivals(MOCK_FESTIVALS(s, z), <<"sommerfest-2024">>,
                                  1, 8)
      [] key = "aufguesse" ->
             cancelNewAufguesse(generateInitialAufguesse(s, z),
                                <<"test-aufguss-past">>)

\* the strings found under the key of a collection
ModelStoredStrings(key, s, z) ==
    {JSONStringify(StoredCollection(key, s, z)),
     [shape |-> "garbage", json |-> <<>>],
     [shape |-> "null", json |-> <<>>],
     [shape |-> "object", json |-> <<>>]}

\* what is found under the key of a collection: nothing or a string
ModelStored(key, s, z) ==
    {None} \cup {Some(x) : x \in ModelStoredStrings(key, s, z)}

\* what is found under the key selectedFestivalId
ModelStoredIds == {None, Some(<<"sommerfest-2024">>)}

InitLoad ==
    /\ appStage = "loading"
    /\ currentUser = None
    /\ users = <<>>
    /\ posts = <<>>
    /\ festivals = <<>>
    /\ aufguesse = <<>>
    /\ selectedFestivalId = <<>>
    /\ now \in StartTimes
    /\ tz \in TimeZones
    /\ \E u \in ModelStored("users", now, tz),
          p \in ModelStored("posts", now, tz),
          f \in ModelStored("festivals", now, tz),
          a \in ModelStored("aufguesse", now, tz),
          id \in ModelStoredIds :
          storage = [k \in StorageKeys |->
                        CASE k = "users" -> u
                          [] k = "posts" -> p
                          [] k = "festivals" -> f
                          [] k = "aufguesse" -> a
                          [] k = "selectedFestivalId" -> id
                          [] OTHER -> None]
    /\ idClock = 0
    /\ ops = 0
    /\ last = NoOp
    /\ inflight = None
    /\ renderedAt = now
    /\ availableQuals = <<>>
    /\ editingUser = None
    /\ selectedQuals = <<>>
    /\ isQualsModalOpen = FALSE
    /\ isManaging = FALSE
    /\ editingUserInUsers = FALSE

NextLoad ==
    \/ loadData
    \/ PageReload
    \/ \E n \in ModelUsernames : handleLogin(n)
    \/ handleLogout

\* the initial load from a localStorage of any content
SpecLoad == InitLoad /\ [][NextLoad]_vars

\* the in-memory collection of a key
Loaded(key) ==
    CASE key = "users" -> users
      [] key = "posts" -> posts
      [] key = "festivals" -> festivals
      [] key = "aufguesse" -> aufguesse

\* the default of a key for a load at instant t
DefaultOf(key, t, z) ==
    CASE key = "users" -> MOCK_USERS
      [] key = "posts" -> MOCK_POSTS
      [] key = "festivals" -> MOCK_FESTIVALS(t, z)
      [] key = "aufguesse" -> generateInitialAufguesse(t, z)

\* the keys whose stored string is not the text of an array
CorruptedKeys ==
    {k \in CollectionKeys : storage[k] # None /\ storage[k][1].shape # "array"}

\* C17: after a load from a localStorage in which exactly one key is
\* corrupted, that key holds its default and every other key holds its
\* stored value, or its default if nothing was stored
C17_DefaultsPerKey ==
    (appStage # "loading" /\ Cardinality(CorruptedKeys) = 1)
        => \A k \in CollectionKeys :
              Loaded(k) = IF k \in CorruptedKeys \/ storage[k] = None
                          THEN DefaultOf(k, now, tz)
                          ELSE storage[k][1].json

-----------------------------------------------------------------------------
(* Handlers step by step: suspension in a persistence write *)

\* the handler suspended in `await apiClient.saveData(key, data)`: write is
\* the number of that write within the handler; uid, newUsers, newUser and
\* newId are what the rest of the handler uses, computed from the state the
\* handler was started with
Suspended(op, write, key, data, uid, newUsers, newUser) ==
    [op |-> op, write |-> write, key |-> key, data |-> data, uid |-> uid,
     newUsers |-> newUsers, newUser |-> newUser, newId |-> None]

\* a sequence without its i-th element
Remove(s, i) == SubSeq(s, 1, i - 1) \o SubSeq(s, i + 1, Len(s))

\* _simulateDelay of the write of a key, in milliseconds
SaveDataDelay == 50
SaveSelectedFestivalIdDelay == 20
WriteDelay(key) ==
    IF key = "selectedFestivalId" THEN SaveSelectedFestivalIdDelay
    ELSE SaveDataDelay

\* variant: the writes finish in any order
TimerFires_AnyOrder(i) == TRUE

\* inflight is kept in the order in which the pending writes were started;
\* timers of the same delay fire in the order in which they were set
TimerFires(i) ==
    \A j \in 1..(i - 1) :
        WriteDelay(inflight[j].key) # WriteDelay(inflight[i].key)

\* handleClaimAufguss up to `await apiClient.saveAufguesse(newAufguesse)`
handleClaimAufgussBegin(aufgussId, type) ==
    /\ CanAct
    /\ Len(inflight) < MaxInflight
    /\ LET cu == currentUser[1]
           newAufguesse == claimNewAufguesse(aufguesse, aufgussId, cu, type)
       IN  /\ aufguesse' = newAufguesse
           /\ inflight' = Append(inflight,
                                 Suspended("claim", 1, "aufguesse",
                                           newAufguesse, cu.id,
                                           claimNewUsers(users, cu.id), None))
           /\ last' = [op |-> "claimBegin", uid |-> cu.id, key |-> aufgussId,
                       arg |-> type,
                       flag |-> SlotById(aufguesse, aufgussId).aufgussmeisterId
                                    # 0,
                       pre |-> 0, chain |-> None]
    /\ ops' = ops + 1
    /\ renderedAt' = now
    /\ UNCHANGED qualsVars
    /\ UNCHANGED <<appStage, currentUser, users, posts, festivals,
                   selectedFestivalId, storage, now, tz, idClock>>

\* handleCompleteRegistration up to `await apiClient.saveFestivals(...)`
handleCompleteRegistrationBegin(username) ==
    /\ appStage = "profile_setup"
    /\ ops < MaxOps
    /\ Len(inflight) < MaxInflight
    /\ Len(users) < Len(MOCK_USERS) + MaxNewUsers
    /\ LET newUser == NewUser(DateNowId(idClock), username)
           newFestivals == registrationNewFestivals(festivals, newUser.id)
       IN  /\ festivals' = newFestivals
           /\ inflight' = Append(inflight,
                                 Suspended("register", 1, "festivals",
                                           newFestivals, newUser.id,
                                           Append(users, newUser),
                                           Some(newUser)))
           /\ last' = [op |-> "registerBegin", uid |-> newUser.id,
                       key |-> <<>>, arg |-> username, flag |-> TRUE,
                       pre |-> 0, chain |-> None]
    /\ idClock' = idClock + 1
    /\ ops' = ops + 1
    /\ renderedAt' = now
    /\ UNCHANGED qualsVars
    /\ UNCHANGED <<appStage, currentUser, users, posts, aufguesse,
                   selectedFestivalId, storage, now, tz>>

\* handleCancelAufguss, the dialog confirmed, up to
\* `await apiClient.saveAufguesse(newAufguesse)`
handleCancelAufgussBegin(aufgussId) ==
    /\ CanAct
    /\ Len(inflight) < MaxInflight
    /\ SlotById(aufguesse, aufgussId).aufgussmeisterId # 0
    /\ LET cu == currentUser[1]
           aufgussToCancel == SlotById(aufguesse, aufgussId)
           meisterId == aufgussToCancel.aufgussmeisterId
           short == isShortNotice(aufgussToCancel, now, tz)
           newAufguesse == cancelNewAufguesse(aufguesse, aufgussId)
       IN  /\ aufguesse' = newAufguesse
           /\ inflight' = Append(inflight,
                                 Suspended("cancel", 1, "aufguesse",
                                           newAufguesse, cu.id,
                                           cancelNewUsers(users, meisterId,
                                                          short),
                                           None))
           /\ last' = [op |-> "cancelBegin", uid |-> meisterId,
                       key |-> aufgussId,
                       arg |-> IF short THEN "short" ELSE "early",
                       flag |-> TRUE, pre |-> 0, chain |-> None]
    /\ ops' = ops + 1
    /\ renderedAt' = now
    /\ UNCHANGED qualsVars
    /\ UNCHANGED <<appStage, currentUser, users, posts, festivals,
                   selectedFestivalId, storage, now, tz, idClock>>

\* the write of the i-th suspended handler has reached localStorage and the
\* promise is resolved: the handler goes on behind the await
saveDataResolved(i) ==
    /\ i \in 1..Len(inflight)
    /\ inflight[i].op \in {"claim", "cancel", "register"}
    /\ TimerFires(i)
    /\ LET h == inflight[i]
       IN  /\ storage' = saveData(storage, h.key, h.data)
           /\ IF h.write = 1
              THEN \* setUsers(newUsers), then `await apiClient.saveUsers`
                   /\ users' = h.newUsers
                   /\ currentUser' = IF h.op \in {"claim", "cancel"}
                                     THEN FindUser(h.newUsers, h.uid)
                                     ELSE currentUser
                   /\ inflight' = Append(Remove(inflight, i),
                                         [h EXCEPT !.write = 2,
                                                   !.key = "users",
                                                   !.data = h.newUsers])
                   /\ UNCHANGED appStage
              ELSE \* behind the last await of the handler
                   /\ IF h.op = "register"
                      THEN /\ currentUser' = h.newUser
                           /\ appStage' = "loggedIn"
                      ELSE UNCHANGED <<currentUser, appStage>>
                   /\ inflight' = Remove(inflight, i)
                   /\ UNCHANGED users
    /\ last' = [last EXCEPT !.op = "saveResolved"]
    /\ renderedAt' = now
    /\ UNCHANGED qualsVars
    /\ UNCHANGED <<posts, festivals, aufguesse, selectedFestivalId, now, tz,
                   idClock, ops>>

\* localStorage.setItem throws (the quota is exceeded): the promise of
\* saveData is rejected and the handler, which has no catch, ends there
saveDataRejected(i) ==
    /\ i \in 1..Len(inflight)
    /\ inflight' = Remove(inflight, i)
    /\ last' = [last EXCEPT !.op = "saveRejected"]
    /\ UNCHANGED <<appStage, currentUser, users, posts, festivals, aufguesse,
                   selectedFestivalId, storage, now, tz, idClock, ops,
                   renderedAt, qualsVars>>

\* the slots and the type claimed step by step
ModelAsyncSlots ==
    {aufguesse[i].id : i \in 1..(IF Len(aufguesse) < 2 THEN Len(aufguesse)
                                                       ELSE 2)}
ModelAsyncTypes == {"Räucherritual"}

NextAsync ==
    \/ loadData
    \/ PageReload
    \/ \E n \in ModelUsernames : handleLogin(n)
    \/ handleLogout
    \/ handleGoToRegister
    \/ handleCodeSubmit
    \/ handleBackToLogin
    \/ \E id \in ModelAsyncSlots, t \in ModelAsyncTypes :
          inflight = None /\ handleClaimAufgussBegin(id, t)
    \/ \E n \in ModelNewUsernames :
          inflight = None /\ handleCompleteRegistrationBegin(n)
    \/ saveDataResolved(1)
    \/ saveDataRejected(1)

\* login, registration and slot claims with their persistence writes, one
\* handler started at a time
SpecAsync == Init /\ [][NextAsync]_vars

\* C18: a handler that goes on behind its first persistence write has no
\* in-memory update left to apply
C18_UpdatesBeforeFirstWrite ==
    [][(last'.op = "saveResolved" /\ inflight' # inflight
            /\ Len(inflight') = Len(inflight))
       => UNCHANGED <<users, currentUser, posts, festivals, aufguesse>>]_vars

\* C19: when a write of a handler fails, the in-memory collections are what
\* they are after the same handler with all writes succeeding
C19_FailedWriteWithholdsNothing ==
    [][(last'.op = "saveRejected" /\ Len(inflight') = Len(inflight) - 1)
       => \E i \in 1..Len(inflight) :
              /\ inflight' = Remove(inflight, i)
              /\ users' = inflight[i].newUsers]_vars

\* C20: the stage leaves loading only for login; register is entered only
\* from login, profile_setup only from register, loggedIn only from login or
\* profile_setup, and then with a current user of the users collection; a
\* login with an unknown username changes nothing
C20_StageMachine ==
    [][/\ (appStage = "loading" /\ appStage' # appStage)
            => appStage' = "login"
       /\ (appStage' = "register" /\ appStage' # appStage)
            => appStage = "login"
       /\ (appStage' = "profile_setup" /\ appStage' # appStage)
            => appStage = "register"
       /\ (appStage' = "loggedIn" /\ appStage' # appStage)
            => /\ appStage \in {"login", "profile_setup"}
               /\ currentUser' # None
               /\ currentUser'[1].id \in UserIds(users')]_vars

-----------------------------------------------------------------------------
(* The calendar: slots and deadlines at any hour and in any time zone *)

\* the years of the model, 1970 and 1971, have no 29 February
DaysPerYear == 365
\* 31 August as a day of the year, 1 January being day 0
ClosureDayOfYear == 242

\* the day of the week of a calendar day
WeekdayOfDate(d) == (d + EpochWeekday) % DaysPerWeek
\* the day of the year of a calendar day, 1 January being day 0
DayOfYear(d) == d % DaysPerYear

\* Date.prototype.getFullYear, in years since 1970
GetFullYear(t, z) == LocalDate(t, z) \div DaysPerYear

\* new Date(currentDate.getFullYear(), 7, 31): local midnight of 31 August
hoechenschwandClosureDate(currentDate, z) ==
    ParseLocalDateTime(GetFullYear(currentDate, z) * DaysPerYear
                           + ClosureDayOfYear, 0, z)

\* the hours of Albthermen Bad Urach (each at half past)
urachTimes == 10..20

\* the hours of Saunawelt Höchenschwand
hswTimes(currentDate, z) ==
    IF currentDate > hoechenschwandClosureDate(currentDate, z)
    THEN 10..20 ELSE {}

\* saunas.forEach(sauna => times.forEach(time => aufguesse.push(...)))
LocationSlots(loc, dateStr, hours) ==
    LET saunas == LOCATION_SAUNAS(loc)
        times == SortedHours(hours)
    IN  Flatten([i \in 1..Len(saunas) |->
            [j \in 1..Len(times) |->
                FreeSlot(loc, saunas[i], dateStr, times[j])]])

\* the slots of one day of the window: every location, sauna and hour
AllSlotsOfDay(today, day, z) ==
    LET currentDate == today + day * HoursPerDay
        dateStr == IsoDate(currentDate)
        dayOfWeek == GetDay(currentDate, z)
    IN  LocationSlots(SAUNA_LOCATIONS[1], dateStr, fdsTimes(dayOfWeek))
        \o LocationSlots(SAUNA_LOCATIONS[2], dateStr, urachTimes)
        \o LocationSlots(SAUNA_LOCATIONS[3], dateStr,
                         hswTimes(currentDate, z))

\* generateInitialAufguesse with every location, sauna and hour
generateEveryAufguss(today, z) ==
    Flatten([d \in 1..WindowDays |-> AllSlotsOfDay(today, d - 1, z)])
    \o << [id |-> <<"test-aufguss-past">>,
           location |-> SAUNA_LOCATIONS[1],
           sauna |-> LOCATION_SAUNAS(SAUNA_LOCATIONS[1])[1],
           date |-> IsoDate(today - PastSlotDays * HoursPerDay),
           time |-> PastSlotHour,
           aufgussmeisterId |-> 2,
           aufgussmeisterName |-> "Max Mustermann",
           type |-> "Test Aufguss"] >>

\* loadAllData where the slots are generated for every location and hour
loadEveryAufguss(store, t, z) ==
    LET data == loadAllData(store, t, z)
    IN  IF store["aufguesse"] = None \/ ~IsArray(data.users)
        THEN [data EXCEPT !.aufguesse = generateEveryAufguss(t, z)]
        ELSE data

loadDataEveryAufguss ==
    /\ appStage = "loading"
    /\ loadDataFrom(loadEveryAufguss(storage, now, tz))

\* the days and the hours (UTC) at which the page is first opened: Thursday
\* 27 August to Wednesday 2 September 1970, at midnight, noon and 23:00
ModelOpenDays == 238..244
ModelOpenHours == {0, 12, 23}
\* the time zones of the browser, as hours ahead of UTC
ModelTimeZones == {-5, 2}

InitCalendar ==
    /\ appStage = "loading"
    /\ currentUser = None
    /\ users = <<>>
    /\ posts = <<>>
    /\ festivals = <<>>
    /\ aufguesse = <<>>
    /\ selectedFestivalId = <<>>
    /\ storage = EmptyStorage
    /\ now \in {d * HoursPerDay + h : d \in ModelOpenDays, h \in ModelOpenHours}
    /\ tz \in ModelTimeZones
    /\ idClock = 0
    /\ ops = 0
    /\ last = NoOp
    /\ inflight = None
    /\ renderedAt = now
    /\ availableQuals = <<>>
    /\ editingUser = None
    /\ selectedQuals = <<>>
    /\ isQualsModalOpen = FALSE
    /\ isManaging = FALSE
    /\ editingUserInUsers = FALSE

\* the start dates entered in the festival form: the days of one week
CalendarFormDates == {[startDate |-> d, endDate |-> d + FestivalLengthDays] :
                         d \in 260..266}

NextCalendar ==
    \/ loadDataEveryAufguss
    \/ PageReload
    \/ handleLogin("admin")
    \/ handleLogout
    \/ \E d \in CalendarFormDates : handleSaveFormCreate(d)

\* the seed data and the festival form at any hour, in any time zone
SpecCalendar == InitCalendar /\ [][NextCalendar]_vars

\* the local calendar day and hour of an instant
LocalHour(t, z) == (t + z) % HoursPerDay

\* C21: the RSVP deadline of a festival falls on a Thursday at 22:00 and is
\* between 1 and 7 days before the start date: 7 days when the start date
\* is a Thursday, 6 days when it is a Wednesday
C21_DeadlineThursdayBeforeStart ==
    \A i \in 1..Len(festivals) :
        LET f == festivals[i]
            daysBefore == f.startDate - LocalDate(f.rsvpDeadline, tz)
        IN  /\ GetDay(f.rsvpDeadline, tz) = THURSDAY
            /\ LocalHour(f.rsvpDeadline, tz) = DeadlineHour
            /\ daysBefore \in 1..DaysPerWeek
            /\ WeekdayOfDate(f.startDate) = THURSDAY
                   => daysBefore = DaysPerWeek
            /\ WeekdayOfDate(f.startDate) = THURSDAY - 1
                   => daysBefore = DaysPerWeek - 1

\* the calendar days of the generated window, as the slots are dated
WindowDates ==
    {aufguesse[i].date : i \in {j \in 1..Len(aufguesse) :
                                   aufguesse[j].location = SAUNA_LOCATIONS[2]}}

\* the generated slots of a sauna on a calendar day
SlotIndexes(loc, sauna, d) ==
    {i \in 1..Len(aufguesse) :
        /\ aufguesse[i].location = loc
        /\ aufguesse[i].sauna = sauna
        /\ aufguesse[i].date = d
        /\ aufguesse[i].id # <<"test-aufguss-past">>}

\* the slots of a sauna on a calendar day are exactly one slot for each of
\* the given hours
HasExactlyHours(loc, sauna, d, hours) ==
    /\ {aufguesse[i].time : i \in SlotIndexes(loc, sauna, d)} = hours
    /\ Cardinality(SlotIndexes(loc, sauna, d)) = Cardinality(hours)

\* C22: for a day of the window on or before 31 August there is no slot of
\* Saunawelt Höchenschwand; for a day from 1 September on there are exactly
\* the slots 10:00 to 20:00 for each of its saunas
C22_LocationCClosedThroughAugust ==
    \A d \in WindowDates :
        \A i \in 1..Len(LOCATION_SAUNAS(SAUNA_LOCATIONS[3])) :
            HasExactlyHours(SAUNA_LOCATIONS[3],
                            LOCATION_SAUNAS(SAUNA_LOCATIONS[3])[i], d,
                            IF DayOfYear(d) <= ClosureDayOfYear
                            THEN {} ELSE 10..20)

\* C23: for a day of the window and a sauna of Panoramabad Freudenstadt the
\* slots dated with that day are exactly 14:00 to 20:00 on Tuesday, Wednesday
\* and Thursday, 11:00 to 20:00 on Friday, Saturday and Sunday, none on Monday
C23_LocationASchedule ==
    \A d \in WindowDates :
        \A i \in 1..Len(LOCATION_SAUNAS(SAUNA_LOCATIONS[1])) :
            HasExactlyHours(SAUNA_LOCATIONS[1],
                            LOCATION_SAUNAS(SAUNA_LOCATIONS[1])[i], d,
                            CASE WeekdayOfDate(d) \in {2, 3, 4} -> 14..20
                              [] WeekdayOfDate(d) \in {5, 6, 0} -> 11..20
                              [] OTHER -> {})

-----------------------------------------------------------------------------
(* Saving a collection and loading it again *)

NextRoundTrip ==
    \/ loadData
    \/ PageReload
    \/ \E n \in {"admin", "anna"} : handleLogin(n)
    \/ handleLogout
    \/ \E t \in {"text", "poll"} : handleAddPost(t)
    \/ \E id \in SlotIds, t \in ModelAsyncTypes : handleClaimAufguss(id, t)
    \/ \E d \in FormDates : handleSaveFormCreate(d)
    \/ \E id \in FestivalIds : onDeleteFestival(id, TRUE)
    \/ \E id \in UserIds(users) : handleDeleteUser(id, TRUE)

\* handlers that save users, posts, festivals and slots, and reloads
SpecRoundTrip == Init /\ [][NextRoundTrip]_vars

-----------------------------------------------------------------------------
(* Handlers started while another handler is suspended *)

\* the slots offered for a claim (free) and for a cancellation (claimed)
FreeAsyncSlots ==
    {id \in ModelAsyncSlots : SlotById(aufguesse, id).aufgussmeisterId = 0}
ClaimedAsyncSlots ==
    {id \in ModelAsyncSlots : SlotById(aufguesse, id).aufgussmeisterId # 0}

NextInterleave ==
    \/ loadData
    \/ \E n \in {"admin", "anna"} : handleLogin(n)
    \/ handleLogout
    \/ \E id \in FreeAsyncSlots, t \in ModelAsyncTypes :
          handleClaimAufgussBegin(id, t)
    \/ \E id \in ClaimedAsyncSlots : handleCancelAufgussBegin(id)
    \/ \E i \in 1..MaxInflight : saveDataResolved(i)

\* claims and cancellations of one session, started also while an earlier
\* one is suspended; every write succeeds
SpecInterleave == Init /\ [][NextInterleave]_vars

\* the number of slots a user holds
SlotsHeld(aufs, uid) ==
    Cardinality({i \in 1..Len(aufs) : aufs[i].aufgussmeisterId = uid})

\* C25: when every handler has finished, the aufgussCount of each user is
\* its initial value plus the number of the user's claims minus the number
\* of cancellations of the user's slots, not below 0; a claim takes a free
\* slot and a cancellation frees a claimed one, so claims minus
\* cancellations is the number of slots the user holds more than initially
C25_NoLostCount ==
    (inflight = None /\ appStage # "loading")
        => \A i \in 1..Len(users) :
               users[i].aufgussCount =
                   Max(0, MOCK_USERS[i].aufgussCount
                          + SlotsHeld(aufguesse, users[i].id)
                          - SlotsHeld(generateInitialAufguesse(now, tz),
                                      users[i].id))

-----------------------------------------------------------------------------
(* The current user and the users collection *)

\* C26: while a user is logged in and no handler is suspended, currentUser
\* equals the record of the users collection with the same id
C26_CurrentUserInSync ==
    (LoggedIn /\ inflight = None)
        => \A i \in 1..Len(users) :
               users[i].id = currentUser[1].id => users[i] = currentUser[1]

-----------------------------------------------------------------------------
(* The selected festival while a festival is created or deleted *)

\* onDeleteFestival, the dialog confirmed, up to
\* `await apiClient.saveFestivals(newFestivals)`
onDeleteFestivalBegin(festivalId) ==
    /\ CanAct
    /\ Len(inflight) < MaxInflight
    /\ LET newFestivals == FilterSeq(festivals, LAMBDA f : f.id # festivalId)
       IN  /\ festivals' = newFestivals
           /\ inflight' = Append(inflight,
                  [Suspended("deleteFestival", 1, "festivals", newFestivals,
                             currentUser[1].id, <<>>, None)
                   EXCEPT !.newId = IF selectedFestivalId = festivalId
                                    THEN Some(deleteNewId(newFestivals))
                                    ELSE None])
    /\ last' = [op |-> "deleteFestivalBegin", uid |-> currentUser[1].id,
                key |-> festivalId, arg |-> NULL, flag |-> TRUE,
                pre |-> IF selectedFestivalId = festivalId
                        THEN "selected" ELSE "other",
                chain |-> None]
    /\ ops' = ops + 1
    /\ renderedAt' = now
    /\ UNCHANGED qualsVars
    /\ UNCHANGED <<appStage, currentUser, users, posts, aufguesse,
                   selectedFestivalId, storage, now, tz, idClock>>

\* handleSaveForm in mode 'create': handleCreateFestival up to
\* `await apiClient.saveFestivals(newFestivals)`
handleCreateFestivalBegin(dates) ==
    /\ CanAct
    /\ Len(inflight) < MaxInflight
    /\ canCreateFestivals(currentUser[1])
    /\ Len(festivals) < MaxFestivals
    /\ LET festivalData == [name |-> "Neues Fest",
                            startDate |-> dates.startDate,
                            endDate |-> dates.endDate]
           created == newFestival(festivalData,
                                  <<"fest", DateNowId(idClock)>>, users, tz)
           newFestivals == Append(festivals, created)
       IN  /\ festivals' = newFestivals
           /\ inflight' = Append(inflight,
                  [Suspended("createFestival", 1, "festivals", newFestivals,
                             currentUser[1].id, <<>>, None)
                   EXCEPT !.newId = Some(created.id)])
           /\ last' = [op |-> "createFestivalBegin",
                       uid |-> currentUser[1].id, key |-> created.id,
                       arg |-> NULL, flag |-> TRUE, pre |-> 0,
                       chain |-> None]
    /\ idClock' = idClock + 1
    /\ ops' = ops + 1
    /\ renderedAt' = now
    /\ UNCHANGED qualsVars
    /\ UNCHANGED <<appStage, currentUser, users, posts, aufguesse,
                   selectedFestivalId, storage, now, tz>>

\* handleSelectFestival up to `await apiClient.saveSelectedFestivalId(id)`
handleSelectFestivalBegin(id) ==
    /\ CanAct
    /\ Len(inflight) < MaxInflight
    /\ selectedFestivalId' = id
    /\ inflight' = Append(inflight,
           [Suspended("selectFestival", 2, "selectedFestivalId", <<>>,
                      currentUser[1].id, <<>>, None)
            EXCEPT !.newId = Some(id)])
    /\ last' = [op |-> "selectFestivalBegin", uid |-> currentUser[1].id,
                key |-> id, arg |-> NULL, flag |-> TRUE, pre |-> 0,
                chain |-> None]
    /\ ops' = ops + 1
    /\ renderedAt' = now
    /\ UNCHANGED qualsVars
    /\ UNCHANGED <<appStage, currentUser, users, posts, festivals, aufguesse,
                   storage, now, tz, idClock>>

\* a write of the i-th suspended handler, onDeleteFestival,
\* handleCreateFestival or handleSelectFestival, has finished: behind
\* saveFestivals the selection is set and saved, behind
\* saveSelectedFestivalId the handler ends
saveFestivalsResolved(i) ==
    /\ i \in 1..Len(inflight)
    /\ inflight[i].op \in {"deleteFestival", "createFestival",
                           "selectFestival"}
    /\ TimerFires(i)
    /\ LET h == inflight[i]
       IN  IF h.write = 1
           THEN /\ storage' = saveData(storage, "festivals", h.data)
                /\ IF h.newId # None
                   THEN /\ selectedFestivalId' = h.newId[1]
                        /\ inflight' = Append(Remove(inflight, i),
                               [h EXCEPT !.write = 2,
                                         !.key = "selectedFestivalId"])
                   ELSE /\ UNCHANGED selectedFestivalId
                        /\ inflight' = Remove(inflight, i)
           ELSE /\ storage' = saveSelectedFestivalId(storage, h.newId[1])
                /\ inflight' = Remove(inflight, i)
                /\ UNCHANGED selectedFestivalId
    /\ last' = [last EXCEPT !.op = "saveResolved"]
    /\ renderedAt' = now
    /\ UNCHANGED qualsVars
    /\ UNCHANGED <<appStage, currentUser, users, posts, festivals, aufguesse,
                   now, tz, idClock, ops>>

NextSelection ==
    \/ loadData
    \/ PageReload
    \/ handleLogin("admin")
    \/ handleLogout
    \/ \E id \in FestivalIds : handleSelectFestivalBegin(id)
    \/ \E id \in FestivalIds : onDeleteFestivalBegin(id)
    \/ \E d \in FormDates : handleCreateFestivalBegin(d)
    \/ \E i \in 1..MaxInflight : saveFestivalsResolved(i)

\* festivals created, selected and deleted, with their persistence writes
SpecSelection == Init /\ [][NextSelection]_vars

\* C27: after the initial load selectedFestivalId is the id of a festival of
\* the collection when there is one, and empty when there is none
C27_SelectionIsAFestival ==
    appStage # "loading"
        => IF festivals # <<>> THEN selectedFestivalId \in FestivalIds
           ELSE selectedFestivalId = <<>>

-----------------------------------------------------------------------------
(* What is stored when every handler has finished *)

NextPersist ==
    \/ loadData
    \/ \E n \in {"admin", "anna"} : handleLogin(n)
    \/ handleLogout
    \/ \E id \in FreeAsyncSlots, t \in ModelAsyncTypes :
          handleClaimAufgussBegin(id, t)
    \/ \E id \in ClaimedAsyncSlots : handleCancelAufgussBegin(id)
    \/ \E id \in FestivalIds : handleSelectFestivalBegin(id)
    \/ \E id \in FestivalIds : onDeleteFestivalBegin(id)
    \/ \E d \in FormDates : handleCreateFestivalBegin(d)
    \/ \E i \in 1..MaxInflight : saveDataResolved(i)
    \/ \E i \in 1..MaxInflight : saveFestivalsResolved(i)

\* one session of slot and festival handlers, started in any order and also
\* while earlier ones are suspended; every write succeeds
SpecPersist == Init /\ [][NextPersist]_vars

-----------------------------------------------------------------------------
(* The session of a user whose own record is deleted: the members page shows
   the delete button of every row to an administrator, their own included *)

NextSession ==
    \/ loadData
    \/ \E n \in {"admin", "anna"} : handleLogin(n)
    \/ handleLogout
    \/ \E id \in UserIds(users), c \in BOOLEAN : handleDeleteUser(id, c)
    \/ \E id \in ModelAsyncSlots, t \in ModelAsyncTypes :
           handleClaimAufguss(id, t)
    \/ \E id \in ModelAsyncSlots, c \in BOOLEAN : handleCancelAufguss(id, c)
    \/ renderStage

SpecSession == Init /\ [][NextSession]_vars

\* C29: the stage is loggedIn only if there is a current user
C29_LoggedInHasUser == appStage = "loggedIn" => currentUser # None

-----------------------------------------------------------------------------
(* The qualification dialog of the members page.  QualificationAssignmentModal
   is always mounted, so that its state outlives the closing of the dialog;
   its effect resets selectedQuals and isManaging when the user object it is
   given is another one. *)

ModelQuals == {"Saunameister Pro", "Ersthelfer"}
ModelNewQuals == {"Zeremonienmeister"}

Includes(s, x) == \E i \in 1..Len(s) : s[i] = x

\* handleOpenQualsModal, from the row of a user on the members page (every
\* seeded user is shown in the list), and the effect on [user]
handleOpenQualsModal(userId) ==
    /\ LoggedIn
    /\ currentUser[1].isAdmin
    /\ ~isQualsModalOpen
    /\ FindUser(users, userId) # None
    /\ LET user == FindUser(users, userId)[1]
       IN  /\ editingUser' = Some(user)
           /\ isQualsModalOpen' = TRUE
           /\ editingUserInUsers' = TRUE
           /\ IF editingUser = Some(user) /\ editingUserInUsers
              THEN UNCHANGED <<selectedQuals, isManaging>>
              ELSE /\ selectedQuals' = user.qualifications
                   /\ isManaging' = FALSE
    /\ UNCHANGED <<appStage, currentUser, users, posts, festivals, aufguesse,
                   selectedFestivalId, storage, now, tz, idClock, ops, last,
                   inflight, renderedAt, availableQuals>>

\* onClose: Abbrechen, or a click on the overlay
onClose ==
    /\ LoggedIn
    /\ isQualsModalOpen
    /\ isQualsModalOpen' = FALSE
    /\ UNCHANGED <<appStage, currentUser, users, posts, festivals, aufguesse,
                   selectedFestivalId, storage, now, tz, idClock, ops, last,
                   inflight, renderedAt, availableQuals, editingUser,
                   selectedQuals, isManaging, editingUserInUsers>>

\* the buttons Verwalten and Zurück
setIsManaging(value) ==
    /\ LoggedIn
    /\ isQualsModalOpen
    /\ isManaging # value
    /\ isManaging' = value
    /\ UNCHANGED <<appStage, currentUser, users, posts, festivals, aufguesse,
                   selectedFestivalId, storage, now, tz, idClock, ops, last,
                   inflight, renderedAt, availableQuals, editingUser,
                   selectedQuals, isQualsModalOpen, editingUserInUsers>>

\* a click on the checkbox of an available qualification: isChecked is the
\* opposite of what the box showed
handleCheckboxChange(qual) ==
    /\ LoggedIn
    /\ isQualsModalOpen
    /\ ~isManaging
    /\ ops < MaxOps
    /\ Includes(availableQuals, qual)
    /\ LET isChecked == ~Includes(selectedQuals, qual)
       IN  selectedQuals' = IF isChecked THEN Append(selectedQuals, qual)
                            ELSE FilterSeq(selectedQuals, LAMBDA q : q # qual)
    /\ ops' = ops + 1
    /\ UNCHANGED <<appStage, currentUser, users, posts, festivals, aufguesse,
                   selectedFestivalId, storage, now, tz, idClock, last,
                   inflight, renderedAt, availableQuals, editingUser,
                   isQualsModalOpen, isManaging, editingUserInUsers>>

\* users.map(u => u.id === userId ? { ...u, qualifications: quals } : u)
saveQualsNewUsers(us, userId, quals) ==
    MapSeq(LAMBDA u : IF u.id = userId THEN [u EXCEPT !.qualifications = quals]
                      ELSE u, us)

\* Speichern: handleSave of the dialog, which calls handleSaveQuals and onClose
handleSaveQuals ==
    /\ CanAct
    /\ isQualsModalOpen
    /\ ~isManaging
    /\ LET user == editingUser[1]
           newUsers == saveQualsNewUsers(users, user.id, selectedQuals)
       IN  /\ users' = newUsers
           /\ storage' = saveData(storage, "users", newUsers)
           /\ last' = [op |-> "saveQuals", uid |-> user.id, key |-> <<>>,
                       arg |-> NULL, flag |-> TRUE, pre |-> 0, chain |-> None]
    /\ isQualsModalOpen' = FALSE
    /\ editingUserInUsers' = FALSE
    /\ ops' = ops + 1
    /\ renderedAt' = now
    /\ UNCHANGED <<appStage, currentUser, posts, festivals, aufguesse,
                   selectedFestivalId, now, tz, idClock, inflight,
                   availableQuals, editingUser, selectedQuals, isManaging>>

\* Hinzufügen: handleAdd of the dialog (qual is the trimmed input, not empty),
\* which calls handleAddQual
handleAddQual(qual) ==
    /\ CanAct
    /\ isQualsModalOpen
    /\ isManaging
    /\ ~Includes(availableQuals, qual)
    /\ LET newQuals == Append(availableQuals, qual)
       IN  /\ availableQuals' = newQuals
           /\ storage' = saveData(storage, "availableQuals", newQuals)
    /\ last' = [op |-> "addQual", uid |-> 0, key |-> <<>>, arg |-> qual,
                flag |-> TRUE, pre |-> 0, chain |-> None]
    /\ ops' = ops + 1
    /\ renderedAt' = now
    /\ UNCHANGED <<appStage, currentUser, users, posts, festivals, aufguesse,
                   selectedFestivalId, now, tz, idClock, inflight,
                   editingUser, selectedQuals, isQualsModalOpen, isManaging,
                   editingUserInUsers>>

\* users.map(u => ({ ...u, qualifications: u.qualifications.filter(...) }))
deleteQualNewUsers(us, qualToDelete) ==
    MapSeq(LAMBDA u : [u EXCEPT !.qualifications =
                          FilterSeq(u.qualifications,
                                    LAMBDA q : q # qualToDelete)], us)

\* handleDeleteQual up to its first await: the list is updated and its write
\* started; newUsers is computed from the users of the render in which the
\* button was clicked
handleDeleteQualBegin(qualToDelete) ==
    /\ CanAct
    /\ isQualsModalOpen
    /\ isManaging
    /\ Includes(availableQuals, qualToDelete)
    /\ Len(inflight) < MaxInflight
    /\ LET newAvailableQuals ==
               FilterSeq(availableQuals, LAMBDA q : q # qualToDelete)
       IN  /\ availableQuals' = newAvailableQuals
           /\ inflight' = Append(inflight,
                  Suspended("deleteQual", 1, "availableQuals",
                            newAvailableQuals, 0,
                            deleteQualNewUsers(users, qualToDelete), None))
    /\ last' = [op |-> "deleteQualBegin", uid |-> 0, key |-> <<>>,
                arg |-> qualToDelete, flag |-> TRUE, pre |-> 0,
                chain |-> None]
    /\ ops' = ops + 1
    /\ renderedAt' = now
    /\ UNCHANGED <<appStage, currentUser, users, posts, festivals, aufguesse,
                   selectedFestivalId, storage, now, tz, idClock,
                   editingUser, selectedQuals, isQualsModalOpen, isManaging,
                   editingUserInUsers>>

\* a write of handleDeleteQual finishes: after saveAvailableQuals the handler
\* calls setUsers and starts saveUsers
saveAvailableQualsResolved(i) ==
    /\ i \in 1..Len(inflight)
    /\ inflight[i].op = "deleteQual"
    /\ TimerFires(i)
    /\ LET h == inflight[i]
       IN  IF h.write = 1
           THEN /\ storage' = saveData(storage, "availableQuals", h.data)
                /\ users' = h.newUsers
                /\ editingUserInUsers' = FALSE
                /\ inflight' = Append(Remove(inflight, i),
                       [h EXCEPT !.write = 2, !.key = "users",
                                 !.data = h.newUsers])
           ELSE /\ storage' = saveData(storage, "users", h.data)
                /\ inflight' = Remove(inflight, i)
                /\ UNCHANGED <<users, editingUserInUsers>>
    /\ last' = [last EXCEPT !.op = "saveResolved"]
    /\ renderedAt' = now
    /\ UNCHANGED <<appStage, currentUser, posts, festivals, aufguesse,
                   selectedFestivalId, now, tz, idClock, ops, availableQuals,
                   editingUser, selectedQuals, isQualsModalOpen, isManaging>>

NextQuals ==
    \/ loadData
    \/ PageReload
    \/ handleLogin("admin")
    \/ handleLogout
    \/ \E id \in UserIds(users) : handleOpenQualsModal(id)
    \/ onClose
    \/ \E v \in BOOLEAN : setIsManaging(v)
    \/ \E q \in ModelQuals \cup ModelNewQuals : handleCheckboxChange(q)
    \/ handleSaveQuals
    \/ \E q \in ModelNewQuals : handleAddQual(q)
    \/ \E q \in ModelQuals \cup ModelNewQuals : handleDeleteQualBegin(q)
    \/ \E i \in 1..MaxInflight : saveAvailableQualsResolved(i)

\* qualifications added, deleted and assigned in the dialog
SpecQuals == Init /\ [][NextQuals]_vars

\* C30: every qualification held by a user is in the list of available
\* qualifications
C30_HeldQualsAreAvailable ==
    \A i \in 1..Len(users) :
        \A j \in 1..Len(users[i].qualifications) :
            Includes(availableQuals, users[i].qualifications[j])

-----------------------------------------------------------------------------
(* The whole application *)

Next ==
    \/ NextAufguss
    \/ NextSocial
    \/ NextFestival
    \/ NextHours
    \/ NextTasks
    \/ NextAsync
    \/ renderStage

Spec == Init /\ [][Next]_vars

=============================================================================
